---- MODULE Spec2Model ----
(***************************************************************************)
(* ClipGen request orchestration: TextProcessor.handle_hotkey / process /  *)
(* cancel_current (clipgen/api/processor.py), the provider key rotation    *)
(* (clipgen/api/base.py) and the adapters' generate entry check            *)
(* (clipgen/api/gemini.py, clipgen/api/openai_compat.py).                  *)
(*                                                                         *)
(* One handle_hotkey execution is one thread spawned by the queue worker   *)
(* (clipgen/app.py); every execution runs process() at most once and owns  *)
(* the threading.Event it creates, so executions and cancel events share   *)
(* their identities.                                                       *)
(***************************************************************************)
EXTENDS Integers, Sequences, FiniteSets, TLC

\* ---------------------------------------------------------------- bounds
MaxExec == 2          \* handle_hotkey executions spawned in one behaviour
MaxKeys == 2          \* credentials per provider list in the initial config

\* ------------------------------------------------------- program constants
DAY_SECONDS == 86400

Execs == 1..MaxExec
Providers == {"gemini", "openai"}
None == "<None>"      \* Python None where a string is expected
NoEvent == 0          \* current_task_event is None / genai_lock is free

\* ------------------------------------------------------------ credentials
\* secrets are character sequences so that the substring test of the
\* placeholder check is computed as Python computes it
SECRET_OK      == <<"s", "k", "-", "1">>
SECRET_2       == <<"s", "k", "-", "2">>
SECRET_EMPTY   == <<>>
SECRET_DEFAULT == <<"Y","O","U","R","_","A","P","I","_","K","E","Y","_","H","E","R","E">>
SECRET_YOURKEY == <<"Y","O","U","R","_","K","E","Y">>
PLACEHOLDER_MARK == <<"Y","O","U","R","_","K","E","Y">>

MISSING == "<missing>"   \* dict without the "name" entry

\* `needle in hay` for Python strings
Contains(hay, needle) ==
    \E i \in 0..(Len(hay) - Len(needle)) :
        \A j \in 1..Len(needle) : hay[i + j] = needle[j]

\* ----------------------------------------------------------- adapter results
\* an exception is the set of lowercase fragments its message contains
ERR_QUOTA429  == {"429", "quota"}
ERR_QUOTA     == {"quota"}
ERR_503       == {"503"}
ERR_CANCELLED == {"cancelled"}
ERR_EMPTY     == {"empty response"}
NoError == {"<no error>"}

Value(t) == [kind |-> "value", text |-> t, err |-> {}]
Raised(e) == [kind |-> "error", text |-> "", err |-> e]
Nothing == [kind |-> "none", text |-> "", err |-> {}]

QuotaErrors == {ERR_QUOTA429, ERR_QUOTA}
Outcomes == {Value("R"), Value("")} \cup {Raised(e) : e \in QuotaErrors \cup {ERR_503}}

\* str.strip() on the texts a response carries here
Strip(t) == IF t = " " THEN "" ELSE t

\* the responses of the Gemini backend: the number of parts and response.text
GeminiResponses ==
    { [parts |-> 0, text |-> ""], [parts |-> 1, text |-> " "],
      [parts |-> 1, text |-> "R"] }

\* the tail of GeminiProvider.generate: `if not response.parts: raise
\* ValueError("Empty response from Gemini")`, then response.text.strip()
GeminiGenerate(r) ==
    IF r.parts = 0 THEN Raised(ERR_EMPTY) ELSE Value(Strip(r.text))

\* the responses of an OpenAI-compatible backend: choices[0].message.content
OpenAIResponses == { [content |-> None], [content |-> ""], [content |-> "R"] }

\* the tail of OpenAIProvider.generate: the content is returned as it came
OpenAIGenerate(r) == Value(r.content)

\* a response that carries no usable text
NoUsableText(p, r) ==
    IF p = "gemini" THEN r.parts = 0 \/ Strip(r.text) = ""
                    ELSE r.content \in {None, ""}

\* what generate of provider p makes of the responses without usable text
EmptyAnswers(p) ==
    IF p = "gemini"
    THEN { GeminiGenerate(r) : r \in { x \in GeminiResponses : NoUsableText(p, x) } }
    ELSE { OpenAIGenerate(r) : r \in { x \in OpenAIResponses : NoUsableText(p, x) } }

\* simulated adapters: "free" answers anything, the others follow a script
\* indexed by the number of the dispatch inside one process() call
ScriptedModes == {"always_quota", "quota_then_ok"}
AdapterModes == {"free", "always_503", "always_empty"} \cup ScriptedModes

AdapterAnswers(mode, n, p) ==
    CASE mode = "always_quota"  -> {Raised(ERR_QUOTA429)}
      [] mode = "quota_then_ok" -> IF n = 1 THEN {Raised(ERR_QUOTA429)} ELSE {Value("R")}
      [] mode = "always_503"    -> {Raised(ERR_503)}
      [] mode = "always_empty"  -> EmptyAnswers(p)
      [] OTHER                  -> Outcomes

VARIABLES
    keys,                \* config[provider.api_keys_key]: list of credential dicts
    auto_switch,         \* config["auto_switch_api_keys"]
    adapter,             \* which simulated backend answers generate()
    clock,               \* time.time()
    genai_lock,          \* holder of TextProcessor.genai_lock, NoEvent when free
    current_task_event,  \* TextProcessor.current_task_event (identity of the Event)
    cancel_event,        \* cancel_event[e]: flag of the Event created by execution e
    th,                  \* th[e]: locals of the handle_hotkey/process thread e
    worker,              \* worker[e]: the worker thread of e's current attempt
    obs,                 \* obs[e]: calls and callbacks made by execution e
    reg,                 \* the last operation on a credential list, its caller
                         \* and result, and the welcome-message thread
    inputs,              \* what the clipboard and the hotkey table can supply to
                         \* handle_hotkey
    listener,            \* HotkeyListener: config["hotkeys"], key_states,
                         \* is_pasting, its last callback, and the threads that
                         \* are inside simulate_copy or simulate_paste
    dispatch,            \* ClipGenApp.hotkey_queue, its queue worker thread and
                         \* the executions that thread started
    clipboard            \* the system clipboard, what each handle_hotkey thread
                         \* read from, wrote to and pasted from it, and where
                         \* the thread is between these steps

vars == <<keys, auto_switch, adapter, clock, genai_lock,
          current_task_event, cancel_event, th, worker, obs, reg, inputs,
          listener, dispatch, clipboard>>

\* what handle_hotkey, process() and cancel_current never write
config == <<auto_switch, adapter, reg, inputs, listener, dispatch, clipboard>>

\* everything but the hotkey listener and the dispatch queue
backend == <<keys, auto_switch, adapter, clock, genai_lock,
             current_task_event, cancel_event, th, worker, obs, reg, inputs,
             clipboard>>

\* ------------------------------------------------------------------ helpers
Max(a, b) == IF a >= b THEN a ELSE b

\* Python truthiness of an optional string
Truthy(s) == s # None /\ s # ""

\* index of the first dict with a truthy "active", 0 when there is none
ActiveIndex(list) ==
    IF \E i \in 1..Len(list) : list[i].active
    THEN CHOOSE i \in 1..Len(list) :
            list[i].active /\ \A j \in 1..(i - 1) : ~list[j].active
    ELSE 0

\* GeminiProvider.get_active_key / OpenAIProvider.get_active_key
get_active_key(list) == ActiveIndex(list)

FALLBACK_LABELS == <<"Key 1", "Key 2", "Key 3", "Key 4", "Key 5">>

\* keys[next_index].get("name", f"Key {next_index + 1}")
KeyLabel(list, i) == IF list[i].name = MISSING THEN FALLBACK_LABELS[i] ELSE list[i].name

\* a faulty variant: the rotation stops at the last credential
SwitchedKeysNoWrap(list) ==
    IF Len(list) < 2 THEN list
    ELSE LET cur == ActiveIndex(list)
             nxt == IF cur = Len(list) THEN cur ELSE cur + 1
             off == IF cur >= 1 THEN [list EXCEPT ![cur].active = FALSE] ELSE list
         IN [off EXCEPT ![nxt].active = TRUE]

\* APIProvider.switch_to_next_key: the list after the call
SwitchedKeys(list) ==
    IF Len(list) < 2 THEN list
    ELSE LET cur == ActiveIndex(list)
             nxt == (cur % Len(list)) + 1
             off == IF cur >= 1 THEN [list EXCEPT ![cur].active = FALSE] ELSE list
         IN [off EXCEPT ![nxt].active = TRUE]

\* a faulty variant: a single credential counts as a rotation
SwitchedNameFromOne(list) ==
    IF Len(list) < 1 THEN None
    ELSE KeyLabel(list, (ActiveIndex(list) % Len(list)) + 1)

\* APIProvider.switch_to_next_key: the returned name
SwitchedName(list) ==
    IF Len(list) < 2 THEN None
    ELSE KeyLabel(list, (ActiveIndex(list) % Len(list)) + 1)

\* a faulty variant: an entry of exactly one day is kept
PrunedInclusive(ts, now) == SelectSeq(ts, LAMBDA t : now - t <= DAY_SECONDS)

\* TextProcessor._update_key_timestamp
Pruned(ts, now) == SelectSeq(ts, LAMBDA t : now - t < DAY_SECONDS)

UpdateKeyTimestamp(list, now) ==
    LET i == get_active_key(list)
    IN IF i = 0 THEN list
       ELSE [list EXCEPT ![i].usage_timestamps = Pruned(Append(@, now), now)]

\* TextProcessor._get_provider
GetProvider(hotkey, global) ==
    IF hotkey.found /\ hotkey.use_custom_model /\ hotkey.custom_provider # None
    THEN IF hotkey.custom_provider = "openai" THEN "openai" ELSE "gemini"
    ELSE IF global = "openai" THEN "openai" ELSE "gemini"

\* a faulty variant: three attempts per credential
MaxAttemptsTriple(list) == Max(Len(list) * 3, 1)

\* max_attempts = max(len(api_keys) * 2, 1)
MaxAttempts(list) == Max(Len(list) * 2, 1)

\* a faulty variant: every failure is retried like a quota error
IsQuotaErrorAny(e) == TRUE

\* the quota test of the retry loop
IsQuotaError(e) == "429" \in e \/ "quota" \in e

\* ------------------------------------------------------------ initial state
\* a credential dict that was used once, at time 0
Cred(secret, name, active) ==
    [key |-> secret, name |-> name, active |-> active, usage_timestamps |-> <<0>>]

\* DEFAULT_CONFIG["api_keys"] and DEFAULT_CONFIG["openai_api_keys"]
DefaultKeys(p) ==
    IF p = "gemini"
    THEN <<[Cred(SECRET_DEFAULT, "Main Key", TRUE) EXCEPT !.usage_timestamps = <<>>]>>
    ELSE <<[Cred(SECRET_EMPTY, "Main Key", TRUE) EXCEPT !.usage_timestamps = <<>>]>>

\* the kinds of credential a settings file holds: configured, configured and
\* unnamed (config migration), freshly added, shipped placeholder, hand-made
\* placeholder
CredKinds ==
    { <<SECRET_OK, "Main Key">>, <<SECRET_OK, "">>, <<SECRET_EMPTY, "New Key">>,
      <<SECRET_DEFAULT, "Main Key">>, <<SECRET_YOURKEY, "Main Key">> }

\* lists of up to MaxKeys credentials, exactly one of them active (add, delete
\* and activate in ui/main_window.py keep it so): configured credentials, one
\* of which may be of another kind
KeyLists ==
    { <<>> } \cup
    { [i \in 1..q[1] |->
          IF i = q[3] THEN Cred(q[4][1], q[4][2], i = q[2])
                      ELSE Cred(SECRET_OK, "Main Key", i = q[2])] :
        q \in { r \in (1..MaxKeys) \X (1..MaxKeys) \X (1..MaxKeys) \X CredKinds :
                  r[2] <= r[1] /\ r[3] <= r[1] } }

Hotkeys ==
    { [found |-> FALSE, use_custom_model |-> FALSE, custom_provider |-> None],
      [found |-> TRUE,  use_custom_model |-> FALSE, custom_provider |-> "openai"],
      [found |-> TRUE,  use_custom_model |-> TRUE,  custom_provider |-> None],
      [found |-> TRUE,  use_custom_model |-> TRUE,  custom_provider |-> "openai"],
      [found |-> TRUE,  use_custom_model |-> TRUE,  custom_provider |-> "gemini"] }

\* ------------------------------------------------ credential operations
MaxStamps == 1        \* successful key tests in one behaviour

\* every i with list[i].active
ActiveSet(list) == {i \in 1..Len(list) : list[i].active}

ExactlyOneActive(list) == Cardinality(ActiveSet(list)) = 1

\* the flags of a list
Flags(list) == [i \in 1..Len(list) |-> list[i].active]

\* the dict appended by _add_key
NEW_KEY ==
    [key |-> SECRET_EMPTY, name |-> "New Key", active |-> FALSE,
     usage_timestamps |-> <<>>]

\* MainWindow._add_key
AddedKey(list) ==
    LET l == Append(list, NEW_KEY)
    IN IF Len(l) = 1 THEN [l EXCEPT ![1].active = TRUE] ELSE l

\* `del self.config[key][index]`
Removed(list, i) ==
    [j \in 1..(Len(list) - 1) |-> IF j < i THEN list[j] ELSE list[j + 1]]

\* a faulty variant: no credential is activated after the deletion
DeletedKeyPlain(list, i) == Removed(list, i)

\* MainWindow._delete_key, once the deletion is confirmed
DeletedKey(list, i) ==
    LET l == Removed(list, i)
    IN IF list[i].active /\ Len(l) > 0 THEN [l EXCEPT ![1].active = TRUE] ELSE l

\* MainWindow._activate_key
ActivatedKey(list, i) == [j \in 1..Len(list) |-> [list[j] EXCEPT !.active = (j = i)]]

\* APIProvider.switch_to_next_key: whether self.reconfigure is called
SwitchReconfigures(list) ==
    /\ Len(list) >= 2
    /\ list[(ActiveIndex(list) % Len(list)) + 1].key # SECRET_EMPTY

\* APITester._update_timestamp on the tested credential
Stamped(list, i, now) ==
    [list EXCEPT ![i].usage_timestamps = Pruned(Append(@, now), now)]

\* the quota test of the welcome-message loop
WelcomeQuota(e) == "429" \in e /\ ("quota" \in e \/ "exhausted" \in e)

\* the credentials of the lists that the operations start from: any name a
\* settings file can hold, any flag
RegCredKinds ==
    { <<SECRET_OK, "Main Key">>, <<SECRET_OK, "">>, <<SECRET_OK, MISSING>>,
      <<SECRET_EMPTY, "New Key">> }

RegCreds == { Cred(k[1], k[2], a) : k \in RegCredKinds, a \in BOOLEAN }

RegLists == UNION { [1..n -> RegCreds] : n \in 0..MaxKeys }

\* p the provider whose list is operated on; by, op the last operation and
\* its calling thread; before, ret, reconfigured the flags that a
\* switch_to_next_key call found, the name it returned and whether it called
\* reconfigure; was_active whether a deleted credential was active; at, prior
\* the credential written by a usage recording and its timestamps before;
\* one_at_start
\* whether the list had exactly one active credential initially; n, start,
\* seq the current run of consecutive switch_to_next_key calls, the flags
\* it started from and the credential each call made active; w_attempt,
\* w_max the loop of the welcome-message thread; rot a switch_to_next_key
\* call seen step by step: its position and its local current_index;
\* genai_key the api_key of the last genai.configure call, where a
\* specification follows it
RotIdle == [pc |-> "idle", current_index |-> -1]

\* genai.configure was never called
NoApiKey == <<"<", "n", "o", "n", "e", ">">>

RegInit(k) ==
    [p |-> "gemini", by |-> "none", op |-> "none", before |-> <<>>, ret |-> None,
     reconfigured |-> FALSE, was_active |-> FALSE, at |-> 0, prior |-> <<>>,
     one_at_start |-> ExactlyOneActive(k["gemini"]),
     n |-> 0, start |-> <<>>, seq |-> <<>>,
     w_attempt |-> 0, w_max |-> MaxAttempts(k["gemini"]), rot |-> RotIdle,
     genai_key |-> NoApiKey]

\* ------------------------------------------------------ the hotkey listener
MaxHotkeys == 2       \* entries of config["hotkeys"]
MaxQueue == 2         \* events put on the hotkey queue in one run

\* the keys of HotkeyListener.key_states
Modifiers == {"ctrl", "alt", "shift", "meta"}

\* _get_key_name returns None
NoKey == "<no key>"

\* keys as pynput reports them: the names of Key members, the characters of
\* KeyCodes, and a KeyCode without a character
RawKeys == {"ctrl_l", "alt_gr", "cmd", "f1", "V", "dead"}

\* _get_key_name: char.lower() of a KeyCode; of a Key the name in lower case
\* without its _l or _r, alt_gr as alt, cmd and win as meta
GetKeyName(raw) ==
    CASE raw = "ctrl_l" -> "ctrl"
      [] raw = "alt_gr" -> "alt"
      [] raw = "cmd"    -> "meta"
      [] raw = "V"      -> "v"
      [] raw = "dead"   -> NoKey
      [] OTHER          -> raw

\* str.lower() and str.strip() on the parts of a combination as users and
\* the default configuration write them
Lower(part) ==
    CASE part = "Ctrl" -> "ctrl"
      [] part = "Alt"  -> "alt"
      [] part = "Win"  -> "win"
      [] part = "F1"   -> "f1"
      [] part = "F9"   -> "f9"
      [] part = "V"    -> "v"
      [] OTHER         -> part

\* hotkey["combination"].lower().split('+'): the combination as the sequence
\* of its parts
Combinations == { <<"Ctrl", "F1">>, <<"F1">>, <<"Alt", "Ctrl", "F1">> }

\* parts[-1] and set(parts[:-1])
MainKey(combination) == Lower(combination[Len(combination)])

RequiredModifiers(combination) ==
    { Lower(combination[k]) : k \in 1..(Len(combination) - 1) }

\* config["hotkeys"]: the action names are the positions in the table
HotkeyTables ==
    UNION { [1..n -> Combinations] : n \in 1..MaxHotkeys }

DEFAULT_HOTKEYS == << <<"Ctrl", "F1">> >>

\* a single hotkey without modifiers
PLAIN_HOTKEYS == << <<"F1">> >>

\* a faulty variant: pressed modifiers beyond the required ones are accepted
HotkeyMatchesSubset(combination, key_name, pressed_modifiers) ==
    /\ key_name = MainKey(combination)
    /\ RequiredModifiers(combination) \subseteq pressed_modifiers

\* `key_name == main_key and pressed_modifiers == required_modifiers`
HotkeyMatches(combination, key_name, pressed_modifiers) ==
    /\ key_name = MainKey(combination)
    /\ pressed_modifiers = RequiredModifiers(combination)

\* the loop over config["hotkeys"] from entry i on: the entries for which
\* an event is put on the queue; the loop returns after the first
RECURSIVE ScanHotkeys(_, _, _, _)
ScanHotkeys(table, i, key_name, pressed_modifiers) ==
    IF i > Len(table) THEN <<>>
    ELSE IF HotkeyMatches(table[i], key_name, pressed_modifiers) THEN <<i>>
    ELSE ScanHotkeys(table, i + 1, key_name, pressed_modifiers)

NoCallback == [key |-> NoKey, press |-> FALSE, pasting |-> FALSE, put |-> <<>>]

\* a thread that is not inside simulate_copy or simulate_paste
SimIdle == [pc |-> "idle", failed |-> FALSE, overlapped |-> FALSE]

\* held: the modifiers the user holds down, where a specification follows
\* the keyboard itself
ListenerInit(table) ==
    [hotkeys |-> table, key_states |-> {}, is_pasting |-> FALSE, running |-> TRUE,
     last |-> NoCallback, sim |-> [c \in Execs |-> SimIdle], held |-> {}]

\* hotkey_queue.put(None)
Sentinel == [action |-> 0, n |-> 0]

\* the queue, the number of events put on it, the events for which the
\* queue worker started a handle_hotkey thread, in the order of the starts,
\* the queue worker, whether shutdown() ran and how many events had been put
\* by then, and whether the process has ended
DispatchInit ==
    [queue |-> <<>>, puts |-> 0, spawned |-> <<>>, drainer |-> "running",
     sentinel |-> FALSE, sentinel_at |-> 0, exited |-> FALSE]

\* what the system clipboard holds: nothing yet, the selection of the
\* focused window, or the result of execution c
NoClip == <<>>
SELECTION == <<"selection">>
ResultOf(c) == <<"result", c>>

\* the clipboard, and for every handle_hotkey thread its position between
\* the clipboard steps, the content it captured, the result of process()
\* and what its simulated paste inserted
ClipIdle == [pc |-> "idle", content |-> NoClip, result |-> NoClip, pasted |-> NoClip]

ClipboardInit == [text |-> NoClip, h |-> [c \in Execs |-> ClipIdle]]

\* get_content() yields text or an image; pyperclip.copy and the keystroke
\* simulation of simulate_paste may raise
ClipContents == {"text", "image"}
ClipOutcomes == {"ok", "set_text_raises", "paste_raises"}

\* inputs of one execution: the content kind, hotkey["learning_mode"], and
\* how the clipboard operations after process() end
AllInputs ==
    [contents |-> ClipContents, copies |-> {"ok", "copy_raises"},
     learning |-> BOOLEAN, clips |-> ClipOutcomes]

\* text on the clipboard, no learning mode, clipboard operations that work
PlainInputs ==
    [contents |-> {"text"}, copies |-> {"ok"}, learning |-> {FALSE}, clips |-> {"ok"}]

\* text on the clipboard, no learning mode, clipboard operations that may
\* raise
FailingInputs ==
    [contents |-> {"text"}, copies |-> {"ok", "copy_raises"}, learning |-> {FALSE},
     clips |-> ClipOutcomes]

ThreadInit ==
    [pc |-> "idle", provider |-> "gemini", max_attempts |-> 0, attempt |-> 0,
     success_result |-> None, last_error |-> NoError, ret |-> None]

WorkerInit == [st |-> "none", queue |-> Nothing, n |-> 0]

\* what one execution did: acquired/busy, the credential count read for
\* max_attempts, the credential active at the first dispatch, the calls of
\* provider.generate, switch_to_next_key, on_key_switch, on_log("Error: ..."),
\* on_error inside process(), on_error and on_success in all,
\* _update_key_timestamp (and the credential it wrote to), save,
\* genai_lock.release, and how a cancellation met the call; of handle_hotkey
\* the content kind it captured, in order its on_start, on_error,
\* on_log("Error: ..."), clipboard.set_text, start of the explanation thread,
\* simulate_paste, on_log(result) and on_success, whether cancel_current()
\* had set its event, how the clipboard operations on its result ended,
\* whether its hotkey was in learning mode, and the state of its explanation
\* thread
ObsInit ==
    [acquired |-> FALSE, busy |-> FALSE, nkeys |-> 0, first_active |-> 0,
     dispatches |-> 0, switch_calls |-> 0, key_switch |-> 0, err_log |-> 0,
     p_on_error |-> 0, on_error |-> 0, on_success |-> 0, usage |-> 0, used |-> 0,
     saves |-> 0, releases |-> 0, abandoned |-> FALSE,
     cancelled_alive |-> FALSE, cancelled_in_flight |-> FALSE,
     content |-> "none", events |-> <<>>, cancel_called |-> FALSE,
     clip |-> "none", learning |-> FALSE, explain |-> "none",
     expl_cancelled |-> FALSE, stamps |-> <<>>]

\* the lists without a placeholder in which only the last credential may be
\* unnamed or freshly added, and the first one is active
PlainKeyLists ==
    { l \in KeyLists :
        \A i \in 1..Len(l) :
            /\ l[i].active = (i = 1)
            /\ l[i].key \in {SECRET_OK, SECRET_EMPTY}
            /\ i < Len(l) => (l[i].key = SECRET_OK /\ l[i].name = "Main Key") }

InitWith(lists, modes, times, inp, table) ==
    /\ inputs = inp
    /\ listener = ListenerInit(table)
    /\ dispatch = DispatchInit
    /\ clipboard = ClipboardInit
    /\ clock \in times
    /\ \E l \in lists :
          keys = [q \in Providers |-> IF q = "gemini" THEN l ELSE DefaultKeys(q)]
    /\ auto_switch \in BOOLEAN
    /\ adapter \in modes
    /\ genai_lock = NoEvent
    /\ current_task_event = NoEvent
    /\ cancel_event = [e \in Execs |-> FALSE]
    /\ th = [e \in Execs |-> ThreadInit]
    /\ worker = [e \in Execs |-> WorkerInit]
    /\ obs = [e \in Execs |-> ObsInit]
    /\ reg = RegInit(keys)

\* ------------------------------------------------- the body of process()
\* The steps of process() between two accesses to state shared with other
\* threads are functions of a frame: t the locals of the call, w its worker
\* thread, o what it did so far, list the credential list of its provider,
\* flag its cancel event, now the time (time.time() moves by a second
\* between two readings).
Frame(e) ==
    [t |-> th[e], w |-> worker[e], o |-> obs[e], list |-> keys[th[e].provider],
     flag |-> cancel_event[e], now |-> clock + 1]

\* the usage_timestamps of every credential of every provider
UsageStamps(k) ==
    [p \in Providers |-> [i \in 1..Len(k[p]) |-> k[p][i].usage_timestamps]]

\* a callback or clipboard call of handle_hotkey, in the order of the calls
Emit(o, ev) == [o EXCEPT !.events = Append(@, ev)]

\* `if self.on_error: self.on_error()`
OnError(o) == [Emit(o, "on_error") EXCEPT !.on_error = @ + 1]

\* the placeholder check of the retry loop: "YOUR_KEY" in key_data.get("key", "")
IsPlaceholder(secret) == Contains(secret, PLACEHOLDER_MARK)

\* a started worker thread runs generate() up to its entry check:
\* `if cancel_event.is_set(): raise ValueError("Cancelled")`
WorkerStart(flag, n) ==
    IF flag THEN [st |-> "dead", queue |-> Raised(ERR_CANCELLED), n |-> n]
            ELSE [st |-> "incall", queue |-> Nothing, n |-> n]

\* a faulty variant: the error raised after the loop leaves process() as an
\* exception, and no value is returned
ExceptBranchReraise(s) == [s EXCEPT !.t.pc = "release", !.t.ret = None]

\* `raise last_error` is caught by `except Exception`: the error is
\* translated and logged, and process() returns ""
ExceptBranch(s) ==
    [s EXCEPT !.t.pc = "release", !.t.ret = "", !.o.err_log = @ + 1]

\* a faulty variant: the timestamp is recorded but the configuration is not
\* saved
AfterLoopNoSave(s) ==
    IF Truthy(s.t.success_result)
    THEN [s EXCEPT !.list = UpdateKeyTimestamp(@, s.now),
                   !.o.usage = @ + 1, !.o.used = get_active_key(s.list),
                   !.t.pc = "release", !.t.ret = s.t.success_result]
    ELSE IF s.t.last_error # NoError THEN ExceptBranch(s)
    ELSE [s EXCEPT !.t.pc = "release", !.t.ret = ""]

\* after the loop: usage statistics and save on success, the except branch
\* for the last error
AfterLoop(s) ==
    IF Truthy(s.t.success_result)
    THEN [s EXCEPT !.list = UpdateKeyTimestamp(@, s.now),
                   !.o.usage = @ + 1, !.o.used = get_active_key(s.list),
                   !.o.saves = @ + 1,
                   !.t.pc = "release", !.t.ret = s.t.success_result]
    ELSE IF s.t.last_error # NoError THEN ExceptBranch(s)
    ELSE [s EXCEPT !.t.pc = "release", !.t.ret = ""]

\* a faulty variant: the usage is recorded when the request is dispatched
LoopHeadStamps(s) ==
    LET k == get_active_key(s.list)
    IN IF s.t.attempt >= s.t.max_attempts
       THEN AfterLoop(s)
       ELSE IF k = 0 \/ s.list[k].key = SECRET_EMPTY \/ IsPlaceholder(s.list[k].key)
       THEN [s EXCEPT !.t.pc = "release", !.t.ret = "", !.t.attempt = @ + 1,
                      !.o = [OnError(@) EXCEPT !.p_on_error = @ + 1]]
       ELSE [s EXCEPT !.t.pc = "poll", !.t.attempt = @ + 1,
                      !.list = UpdateKeyTimestamp(@, s.now),
                      !.w = WorkerStart(s.flag, s.o.dispatches + 1),
                      !.o.dispatches = @ + 1,
                      !.o.first_active = IF s.o.dispatches = 0 THEN k ELSE @]

\* one turn of `while attempt < max_attempts`: the key checks and the start
\* of the worker thread
LoopHead(s) ==
    LET k == get_active_key(s.list)
    IN IF s.t.attempt >= s.t.max_attempts
       THEN AfterLoop(s)
       ELSE IF k = 0 \/ s.list[k].key = SECRET_EMPTY \/ IsPlaceholder(s.list[k].key)
       THEN [s EXCEPT !.t.pc = "release", !.t.ret = "", !.t.attempt = @ + 1,
                      !.o = [OnError(@) EXCEPT !.p_on_error = @ + 1]]
       ELSE [s EXCEPT !.t.pc = "poll", !.t.attempt = @ + 1,
                      !.w = WorkerStart(s.flag, s.o.dispatches + 1),
                      !.o.dispatches = @ + 1,
                      !.o.first_active = IF s.o.dispatches = 0 THEN k ELSE @]

\* a faulty variant: a quota error rotates whatever auto_switch_api_keys says
GetResultAlwaysSwitch(s) ==
    LET result == s.w.queue
        new_key_name == SwitchedName(s.list)
    IN IF result.kind = "none"
       THEN [s EXCEPT !.t.pc = "release", !.t.ret = ""]
       ELSE IF result.kind = "error"
       THEN IF IsQuotaError(result.err)
            THEN IF Truthy(new_key_name)
                 THEN LoopHead([s EXCEPT !.list = SwitchedKeys(@),
                                         !.o.switch_calls = @ + 1,
                                         !.o.key_switch = @ + 1])
                 ELSE AfterLoop([s EXCEPT !.list = SwitchedKeys(@),
                                          !.o.switch_calls = @ + 1,
                                          !.t.last_error = result.err])
            ELSE AfterLoop([s EXCEPT !.t.last_error = result.err])
       ELSE AfterLoop([s EXCEPT !.t.success_result = result.text])

\* the result of the attempt: rotation and `continue` on a quota error,
\* `break` otherwise
GetResult(s) ==
    LET result == s.w.queue
        new_key_name == SwitchedName(s.list)
    IN IF result.kind = "none"
       THEN [s EXCEPT !.t.pc = "release", !.t.ret = ""]
       ELSE IF result.kind = "error"
       THEN IF IsQuotaError(result.err) /\ auto_switch
            THEN IF Truthy(new_key_name)
                 THEN LoopHead([s EXCEPT !.list = SwitchedKeys(@),
                                         !.o.switch_calls = @ + 1,
                                         !.o.key_switch = @ + 1])
                 ELSE AfterLoop([s EXCEPT !.list = SwitchedKeys(@),
                                          !.o.switch_calls = @ + 1,
                                          !.t.last_error = result.err])
            ELSE AfterLoop([s EXCEPT !.t.last_error = result.err])
       ELSE AfterLoop([s EXCEPT !.t.success_result = result.text])

\* a faulty variant: the early return of a cancellation leaves process()
\* without running `self.genai_lock.release()`
PollLoopNoFinally(s) ==
    IF s.w.st # "dead"
    THEN [s EXCEPT !.t.pc = "clear", !.t.ret = "", !.o.abandoned = TRUE]
    ELSE GetResult(s)

\* `while worker_thread.is_alive(): if cancel_event.is_set(): return ""`
PollLoop(s) ==
    IF s.w.st # "dead"
    THEN [s EXCEPT !.t.pc = "release", !.t.ret = "", !.o.abandoned = TRUE]
    ELSE GetResult(s)

\* the frame becomes the state of execution e
Commit(e, s) ==
    /\ th' = [th EXCEPT ![e] = s.t]
    /\ worker' = [worker EXCEPT ![e] = s.w]
    /\ obs' = [obs EXCEPT ![e] = s.o]
    /\ keys' = [keys EXCEPT ![s.t.provider] = s.list]
    /\ clock' = IF s.o.usage > obs[e].usage THEN s.now ELSE clock

\* ------------------------------------------------------------------ actions
\* Executions are numbered in the order in which the queue worker spawns them
Spawned(e) == th[e].pc = "idle" /\ \A d \in Execs : d < e => th[d].pc # "idle"

\* a faulty variant: empty content ends the execution without on_error
HandleHotkeyEmptySilent(e) ==
    /\ Spawned(e)
    /\ th' = [th EXCEPT ![e].pc = "done"]
    /\ obs' = [obs EXCEPT ![e] = [Emit(@, "on_start") EXCEPT !.content = "empty"]]
    /\ UNCHANGED <<keys, config, clock, genai_lock, current_task_event,
                   cancel_event, worker>>

\* handle_hotkey with nothing on the clipboard: on_start, then on_error;
\* process() is not called
HandleHotkeyEmpty(e) ==
    /\ Spawned(e)
    /\ th' = [th EXCEPT ![e].pc = "done"]
    /\ obs' = [obs EXCEPT ![e] = OnError([Emit(@, "on_start") EXCEPT !.content = "empty"])]
    /\ UNCHANGED <<keys, config, clock, genai_lock, current_task_event,
                   cancel_event, worker>>

\* handle_hotkey when simulate_copy raises: the except branch logs the error
\* and calls on_error
HandleHotkeyCopyFails(e) ==
    /\ Spawned(e)
    /\ "copy_raises" \in inputs.copies
    /\ th' = [th EXCEPT ![e].pc = "done"]
    /\ obs' = [obs EXCEPT ![e] = OnError(Emit(Emit(@, "on_start"), "log_error"))]
    /\ UNCHANGED <<keys, config, clock, genai_lock, current_task_event,
                   cancel_event, worker>>

\* a faulty variant: process() is entered without on_start
HandleHotkeyBeginNoStart(e) ==
    /\ Spawned(e)
    /\ th' = [th EXCEPT ![e].pc = "acquire"]
    /\ current_task_event' = e
    /\ \E c \in inputs.contents :
          obs' = [obs EXCEPT ![e].content = c, ![e].stamps = UsageStamps(keys)]
    /\ UNCHANGED <<keys, config, clock, genai_lock, cancel_event, worker>>

\* handle_hotkey up to the call of process(): on_start, the content of the
\* clipboard; and process() up to the publication of its cancel event under
\* task_lock
HandleHotkeyBegin(e) ==
    /\ Spawned(e)
    /\ th' = [th EXCEPT ![e].pc = "acquire"]
    /\ current_task_event' = e
    /\ \E c \in inputs.contents :
          obs' = [obs EXCEPT ![e] = [Emit(@, "on_start") EXCEPT
                                        !.content = c, !.stamps = UsageStamps(keys)]]
    /\ UNCHANGED <<keys, config, clock, genai_lock, cancel_event, worker>>

\* self.genai_lock.acquire(blocking=False); when it succeeds, the set-up of
\* the retry loop and its first turn. The provider, resolved from the hotkey
\* and the global setting before the event was published, is first used here.
Acquire(e) ==
    /\ th[e].pc = "acquire"
    /\ IF genai_lock = NoEvent
       THEN /\ genai_lock' = e
            /\ \E hotkey \in Hotkeys, global \in Providers :
                 LET p == GetProvider(hotkey, global)
                     f == [Frame(e) EXCEPT !.t.provider = p, !.list = keys[p]]
                 IN Commit(e, LoopHead(
                        [f EXCEPT !.t.max_attempts = MaxAttempts(f.list),
                                  !.t.attempt = 0,
                                  !.o.acquired = TRUE,
                                  !.o.nkeys = Len(f.list)]))
       ELSE /\ th' = [th EXCEPT ![e].pc = "busy"]
            /\ obs' = [obs EXCEPT ![e].busy = TRUE]
            /\ UNCHANGED <<genai_lock, keys, clock, worker>>
    /\ UNCHANGED <<config, current_task_event, cancel_event>>

\* a faulty variant: the explanation request is given the event of the main
\* task
ExplanationEventOfTask(flag) == flag

\* `cancel_event = threading.Event()` in _get_explanation: a new event,
\* whatever the flag of the main task's event
ExplanationEvent(flag) == FALSE

\* the explanation thread is started for a hotkey in learning mode when the
\* content was no image
StartExplanation(o, learning, flag) ==
    IF learning /\ o.content # "image"
    THEN [Emit(o, "explain") EXCEPT !.explain = "running",
                                    !.expl_cancelled = ExplanationEvent(flag)]
    ELSE o

\* a faulty variant: the paste is simulated before the result is on the
\* clipboard
HandleHotkeyResultPasteFirst(o, ret, learning, clip, flag) ==
    IF ~Truthy(ret) THEN OnError(o)
    ELSE LET r == [o EXCEPT !.clip = clip, !.learning = learning]
         IN IF clip = "paste_raises" THEN OnError(Emit(r, "log_error"))
            ELSE LET pasted == Emit(r, "paste")
                 IN IF clip = "set_text_raises"
                    THEN OnError(Emit(pasted, "log_error"))
                    ELSE [Emit(Emit(StartExplanation(Emit(pasted, "set_text"), learning, flag),
                                    "log_result"), "on_success")
                             EXCEPT !.on_success = @ + 1]

\* handle_hotkey after process() returned: for a non-empty result set_text,
\* the explanation thread, simulate_paste, the result log and on_success,
\* the except branch when a clipboard operation raises; on_error otherwise
HandleHotkeyResult(o, ret, learning, clip, flag) ==
    IF ~Truthy(ret) THEN OnError(o)
    ELSE LET r == [o EXCEPT !.clip = clip, !.learning = learning]
         IN IF clip = "set_text_raises" THEN OnError(Emit(r, "log_error"))
            ELSE LET written == StartExplanation(Emit(r, "set_text"), learning, flag)
                 IN IF clip = "paste_raises"
                    THEN OnError(Emit(written, "log_error"))
                    ELSE [Emit(Emit(Emit(written, "paste"), "log_result"), "on_success")
                             EXCEPT !.on_success = @ + 1]

\* a faulty variant: the Busy branch returns "" without calling on_error
BusySilent(e) ==
    /\ th[e].pc = "busy"
    /\ current_task_event' = NoEvent
    /\ obs' = [obs EXCEPT ![e] = HandleHotkeyResult(@, "", FALSE, "ok", FALSE)]
    /\ th' = [th EXCEPT ![e].pc = "done", ![e].ret = ""]
    /\ cancel_event' = [cancel_event EXCEPT ![e] = FALSE]
    /\ UNCHANGED <<keys, config, clock, genai_lock, worker>>

\* the Busy branch: clear the event under task_lock, on_error, return "",
\* to which handle_hotkey answers
Busy(e) ==
    /\ th[e].pc = "busy"
    /\ current_task_event' = NoEvent
    /\ obs' = [obs EXCEPT ![e] =
                  HandleHotkeyResult([OnError(@) EXCEPT !.p_on_error = @ + 1],
                                     "", FALSE, "ok", FALSE)]
    /\ th' = [th EXCEPT ![e].pc = "done", ![e].ret = ""]
    /\ cancel_event' = [cancel_event EXCEPT ![e] = FALSE]
    /\ UNCHANGED <<keys, config, clock, genai_lock, worker>>

\* the polling loop sees the worker dead, or alive with the cancel event set
\* (it sleeps otherwise), and process() runs on to its next wait or to its
\* finally block
Poll(e) ==
    /\ th[e].pc = "poll"
    /\ worker[e].st = "dead" \/ cancel_event[e]
    /\ Commit(e, PollLoop(Frame(e)))
    /\ UNCHANGED <<config, genai_lock, current_task_event, cancel_event>>

\* the backend answers: the worker puts the value or the exception on the
\* queue and ends; thread and queue of a call that returned are garbage
WorkerFinish(e) ==
    /\ worker[e].st = "incall"
    /\ \E out \in AdapterAnswers(adapter, worker[e].n, th[e].provider) :
          worker' = [worker EXCEPT ![e] =
                        IF th[e].pc = "done" THEN WorkerInit
                        ELSE [st |-> "dead", queue |-> out, n |-> worker[e].n]]
    /\ UNCHANGED <<keys, config, clock, genai_lock, current_task_event,
                   cancel_event, th, obs>>

\* finally: self.genai_lock.release(). The return value is fixed; the other
\* locals of the call, and what is recorded about its retry loop, are dead
Release(e) ==
    /\ th[e].pc = "release"
    /\ genai_lock' = NoEvent
    /\ obs' = [obs EXCEPT ![e] =
                  [ObsInit EXCEPT !.acquired = obs[e].acquired,
                                  !.p_on_error = obs[e].p_on_error,
                                  !.on_error = obs[e].on_error,
                                  !.content = obs[e].content,
                                  !.events = obs[e].events,
                                  !.stamps = obs[e].stamps,
                                  !.releases = obs[e].releases + 1]]
    /\ th' = [th EXCEPT ![e] = [ThreadInit EXCEPT !.pc = "clear", !.ret = th[e].ret]]
    /\ UNCHANGED <<keys, config, clock, current_task_event, cancel_event, worker>>

\* finally: with self.task_lock: self.current_task_event = None; process()
\* returns and handle_hotkey answers. The Event, the queue and a finished
\* worker thread are unreachable from then on.
ClearEvent(e) ==
    /\ th[e].pc = "clear"
    /\ current_task_event' = NoEvent
    /\ \E learning \in inputs.learning, clip \in inputs.clips :
          obs' = [obs EXCEPT ![e] =
                    HandleHotkeyResult([@ EXCEPT !.cancel_called = cancel_event[e]],
                                       th[e].ret, learning, clip, cancel_event[e])]
    /\ th' = [th EXCEPT ![e].pc = "done"]
    /\ cancel_event' = [cancel_event EXCEPT ![e] = FALSE]
    /\ worker' = [worker EXCEPT ![e] = IF @.st = "dead" THEN WorkerInit ELSE @]
    /\ UNCHANGED <<keys, config, clock, genai_lock>>

\* the explanation thread: nothing to explain when the texts are equal;
\* generate() raises at once when the event it was given is set, and returns
\* or raises whatever the backend answers; a failure is logged and swallowed
ExplanationFinish(e) ==
    /\ obs[e].explain = "running"
    /\ \E same \in BOOLEAN, out \in Outcomes :
          obs' = [obs EXCEPT ![e].explain =
                    IF same THEN "skipped"
                    ELSE IF obs[e].expl_cancelled THEN "cancelled"
                    ELSE IF out.kind = "error" THEN "failed"
                    ELSE IF Truthy(out.text) THEN "shown" ELSE "silent"]
    /\ UNCHANGED <<keys, config, clock, genai_lock, current_task_event,
                   cancel_event, th, worker>>

\* TextProcessor.cancel_current, called from the UI thread
CancelCurrent ==
    /\ current_task_event # NoEvent
    /\ ~cancel_event[current_task_event]
    /\ LET c == current_task_event
       IN /\ cancel_event' = [cancel_event EXCEPT ![c] = TRUE]
          /\ obs' = [obs EXCEPT
                ![c].cancelled_in_flight = (th[c].pc = "poll"),
                ![c].cancelled_alive = (th[c].pc = "poll" /\ worker[c].st = "incall")]
    /\ UNCHANGED <<keys, config, clock, genai_lock, current_task_event, th, worker>>

Next ==
    \/ \E e \in Execs : HandleHotkeyBegin(e)
    \/ \E e \in Execs : Acquire(e)
    \/ \E e \in Execs : Busy(e)
    \/ \E e \in Execs : Poll(e)
    \/ \E e \in Execs : WorkerFinish(e)
    \/ \E e \in Execs : Release(e)
    \/ \E e \in Execs : ClearEvent(e)
    \/ CancelCurrent

\* concurrent executions against the scripted backends
Init == InitWith(PlainKeyLists, ScriptedModes, {0}, PlainInputs, DEFAULT_HOTKEYS)

Spec == Init /\ [][Next]_vars

\* one execution, its worker and the UI thread, against every backend and
\* every credential list
InitRetry == InitWith(KeyLists, AdapterModes, {0, DAY_SECONDS - 1}, AllInputs,
                      DEFAULT_HOTKEYS)

NextRetry ==
    \/ HandleHotkeyEmpty(1)
    \/ HandleHotkeyCopyFails(1)
    \/ HandleHotkeyBegin(1)
    \/ Acquire(1)
    \/ Poll(1)
    \/ WorkerFinish(1)
    \/ Release(1)
    \/ ClearEvent(1)
    \/ ExplanationFinish(1)
    \/ CancelCurrent

SpecRetry == InitRetry /\ [][NextRetry]_vars

\* two configured credentials, and a configured one followed by one
\* without a secret
NotifyKeyLists ==
    { << Cred(SECRET_OK, "Main Key", TRUE), Cred(SECRET_OK, "New Key", FALSE) >>,
      << Cred(SECRET_OK, "Main Key", TRUE), Cred(SECRET_EMPTY, "New Key", FALSE) >> }

\* every path of handle_hotkey, for concurrent executions
InitNotify ==
    InitWith(NotifyKeyLists, ScriptedModes, {0}, FailingInputs, DEFAULT_HOTKEYS)

NextNotify ==
    \/ \E e \in Execs : HandleHotkeyEmpty(e)
    \/ \E e \in Execs : HandleHotkeyCopyFails(e)
    \/ Next

SpecNotify == InitNotify /\ [][NextNotify]_vars

\* ------------------------------------------- operations on a credential list
\* the record of an operation that is no switch_to_next_key
Edited(by, op, was_active) ==
    [reg EXCEPT !.by = by, !.op = op, !.before = <<>>, !.ret = None,
                !.reconfigured = FALSE, !.was_active = was_active,
                !.n = 0, !.start = <<>>, !.seq = <<>>]

\* the record of a switch_to_next_key call; a run of consecutive calls is
\* followed for as many calls as the list has credentials
Switched(by) ==
    LET list == keys[reg.p]
        fresh == reg.n = 0 \/ reg.n >= Len(reg.start)
        now_active == ActiveIndex(SwitchedKeys(list))
    IN [reg EXCEPT !.by = by, !.op = "switch", !.before = Flags(list),
                   !.was_active = FALSE,
                   !.ret = SwitchedName(list),
                   !.reconfigured = SwitchReconfigures(list),
                   !.n = IF Len(list) < 2 THEN 0 ELSE IF fresh THEN 1 ELSE @ + 1,
                   !.start = IF Len(list) < 2 THEN <<>>
                             ELSE IF fresh THEN Flags(list) ELSE @,
                   !.seq = IF Len(list) < 2 THEN <<>>
                           ELSE IF fresh THEN <<now_active>>
                           ELSE Append(@, now_active)]

Untouched ==
    UNCHANGED <<auto_switch, adapter, genai_lock, current_task_event,
                cancel_event, th, worker, obs, inputs, listener, dispatch,
                clipboard>>

\* the UI thread: the "add key" button
AddKey ==
    /\ Len(keys[reg.p]) < MaxKeys + 1
    /\ keys' = [keys EXCEPT ![reg.p] = AddedKey(@)]
    /\ reg' = Edited("ui", "add", FALSE)
    /\ UNCHANGED clock
    /\ Untouched

\* the UI thread: the delete button of row i, confirmed
DeleteKey ==
    /\ \E i \in 1..Len(keys[reg.p]) :
          /\ keys' = [keys EXCEPT ![reg.p] = DeletedKey(@, i)]
          /\ reg' = Edited("ui", "delete", keys[reg.p][i].active)
    /\ UNCHANGED clock
    /\ Untouched

\* the UI thread: the radio button of row i
ActivateKey ==
    /\ \E i \in 1..Len(keys[reg.p]) :
          keys' = [keys EXCEPT ![reg.p] = ActivatedKey(@, i)]
    /\ reg' = Edited("ui", "activate", FALSE)
    /\ UNCHANGED clock
    /\ Untouched

\* provider.switch_to_next_key() called by process() for a quota error
SwitchToNextKey ==
    /\ keys' = [keys EXCEPT ![reg.p] = SwitchedKeys(@)]
    /\ reg' = Switched("process")
    /\ UNCHANGED clock
    /\ Untouched

\* one turn of the loop of _generate_welcome_message, run by the thread
\* started at the end of ClipGenApp.__init__: a value ends the loop, a quota
\* error with auto-switch on calls switch_to_next_key, any other failure
\* goes to the next turn
WelcomeAttempt ==
    /\ reg.w_attempt < reg.w_max
    /\ \E out \in Outcomes :
          IF out.kind = "value" /\ out.text # ""
          THEN /\ reg' = [reg EXCEPT !.w_attempt = reg.w_max]
               /\ UNCHANGED keys
          ELSE IF out.kind = "error" /\ WelcomeQuota(out.err) /\ auto_switch
          THEN /\ keys' = [keys EXCEPT ![reg.p] = SwitchedKeys(@)]
               /\ reg' = [Switched("welcome") EXCEPT !.w_attempt = @ + 1]
          ELSE /\ reg' = [reg EXCEPT !.w_attempt = @ + 1]
               /\ UNCHANGED keys
    /\ UNCHANGED clock
    /\ Untouched

\* the thread started by the test button of row i: APITester.test_gemini_key
\* / test_openai_key succeeded and stamps the tested credential, under the
\* tester's own lock
TesterStamp ==
    /\ clock < MaxStamps
    /\ \E i \in 1..Len(keys[reg.p]) :
          /\ keys[reg.p][i].key # SECRET_EMPTY
          /\ keys' = [keys EXCEPT ![reg.p] = Stamped(@, i, clock + 1)]
    /\ clock' = clock + 1
    /\ reg' = [reg EXCEPT !.by = "tester", !.op = "stamp", !.before = <<>>,
                          !.ret = None, !.reconfigured = FALSE,
                          !.was_active = FALSE]
    /\ Untouched

InitReg(flags) ==
    /\ inputs = PlainInputs
    /\ listener = ListenerInit(DEFAULT_HOTKEYS)
    /\ dispatch = DispatchInit
    /\ clipboard = ClipboardInit
    /\ clock = 0
    /\ \E l \in RegLists, q \in Providers :
          /\ keys = [r \in Providers |-> IF r = q THEN l ELSE DefaultKeys(r)]
          /\ reg = [RegInit(keys) EXCEPT !.p = q, !.one_at_start = ExactlyOneActive(l)]
    /\ auto_switch \in flags
    /\ adapter = "free"
    /\ genai_lock = NoEvent
    /\ current_task_event = NoEvent
    /\ cancel_event = [e \in Execs |-> FALSE]
    /\ th = [e \in Execs |-> ThreadInit]
    /\ worker = [e \in Execs |-> WorkerInit]
    /\ obs = [e \in Execs |-> ObsInit]

\* the complete credential operations, on any credential list
InitKeys == InitReg({TRUE})

NextKeys ==
    \/ AddKey
    \/ DeleteKey
    \/ ActivateKey
    \/ SwitchToNextKey

SpecKeys == InitKeys /\ [][NextKeys]_vars

\* the threads that write to a credential list while no process() call
\* holds genai_lock: the UI thread, the welcome-message thread, a key test
InitThreads == InitReg(BOOLEAN)

NextThreads ==
    \/ ActivateKey
    \/ WelcomeAttempt
    \/ TesterStamp

SpecThreads == InitThreads /\ [][NextThreads]_vars

\* ------------------------------------------------------- usage recordings
MaxLen == 3           \* entries of usage_timestamps before a recording

\* readings of time.time(): around the start, a day later, two days later;
\* the system clock may be set back between two readings
Times == {0, 1, DAY_SECONDS, DAY_SECONDS + 1, 2 * DAY_SECONDS}

\* usage_timestamps as a settings file may hold them: any order, repeats
PriorStamps == UNION { [1..n -> Times] : n \in 0..(MaxLen - 1) }

\* the record of a usage recording on credential i
Recorded(by, i) ==
    [reg EXCEPT !.by = by, !.op = "record", !.at = i,
                !.prior = keys[reg.p][i].usage_timestamps]

\* process() records the usage of the active credential after a success
RecordUsage ==
    /\ ActiveIndex(keys[reg.p]) # 0
    /\ Len(keys[reg.p][ActiveIndex(keys[reg.p])].usage_timestamps) < MaxLen
    /\ \E now \in Times :
          /\ keys' = [keys EXCEPT ![reg.p] = UpdateKeyTimestamp(@, now)]
          /\ clock' = now
    /\ reg' = Recorded("process", ActiveIndex(keys[reg.p]))
    /\ Untouched

\* a successful key test records the usage of the tested credential
TesterRecord ==
    \E i \in 1..Len(keys[reg.p]), now \in Times :
        /\ Len(keys[reg.p][i].usage_timestamps) < MaxLen
        /\ keys' = [keys EXCEPT ![reg.p] = Stamped(@, i, now)]
        /\ clock' = now
        /\ reg' = Recorded("tester", i)
        /\ Untouched

InitUsage ==
    /\ inputs = PlainInputs
    /\ listener = ListenerInit(DEFAULT_HOTKEYS)
    /\ dispatch = DispatchInit
    /\ clipboard = ClipboardInit
    /\ clock = 0
    /\ \E ts \in PriorStamps :
          keys = [r \in Providers |->
                    IF r = "gemini"
                    THEN << [Cred(SECRET_OK, "Main Key", TRUE)
                                EXCEPT !.usage_timestamps = ts],
                            [Cred(SECRET_OK, "New Key", FALSE)
                                EXCEPT !.usage_timestamps = <<>>] >>
                    ELSE DefaultKeys(r)]
    /\ reg = RegInit(keys)
    /\ auto_switch = TRUE
    /\ adapter = "free"
    /\ genai_lock = NoEvent
    /\ current_task_event = NoEvent
    /\ cancel_event = [e \in Execs |-> FALSE]
    /\ th = [e \in Execs |-> ThreadInit]
    /\ worker = [e \in Execs |-> WorkerInit]
    /\ obs = [e \in Execs |-> ObsInit]

NextUsage ==
    \/ RecordUsage
    \/ TesterRecord

\* sequences of usage recordings at arbitrary times on arbitrary lists
SpecUsage == InitUsage /\ [][NextUsage]_vars

\* ------------------------------------------- the listener and the clipboard
\* the dicts put on the queue for the table entries in `put`, numbered in
\* the order in which they are put
Events(put, puts) ==
    [k \in 1..Len(put) |-> [action |-> put[k], n |-> puts + k]]

\* _on_press for the key `raw`: nothing while is_pasting; a modifier is
\* marked as pressed; another key is looked up in the hotkey table
OnPress(l, d, raw) ==
    LET key_name == GetKeyName(raw)
        put == IF l.is_pasting \/ key_name = NoKey \/ key_name \in Modifiers
               THEN <<>>
               ELSE ScanHotkeys(l.hotkeys, 1, key_name, l.key_states)
    IN [l |-> [l EXCEPT !.key_states = IF ~l.is_pasting /\ key_name \in Modifiers
                                       THEN @ \cup {key_name} ELSE @,
                        !.last = [key |-> key_name, press |-> TRUE,
                                  pasting |-> l.is_pasting, put |-> put]],
        d |-> [d EXCEPT !.queue = @ \o Events(put, d.puts), !.puts = @ + Len(put)]]

\* _on_release for the key `raw`: nothing while is_pasting; a modifier is
\* marked as released
OnRelease(l, d, raw) ==
    LET key_name == GetKeyName(raw)
    IN [l |-> [l EXCEPT !.key_states = IF ~l.is_pasting THEN @ \ {key_name} ELSE @,
                        !.last = [key |-> key_name, press |-> FALSE,
                                  pasting |-> l.is_pasting, put |-> <<>>]],
        d |-> d]

\* the listener and the queue after the callback r
Callback(r) ==
    /\ r.d.puts <= MaxQueue
    /\ listener' = r.l
    /\ dispatch' = r.d

\* the user presses a key
PressKey(raw) ==
    /\ listener.running
    /\ Callback(OnPress(listener, dispatch, raw))
    /\ UNCHANGED backend

\* the user releases a key
ReleaseKey(raw) ==
    /\ listener.running
    /\ Callback(OnRelease(listener, dispatch, raw))
    /\ UNCHANGED backend

\* HotkeyListener.set_pasting
SetPasting(value) ==
    /\ listener' = [listener EXCEPT !.is_pasting = value]
    /\ UNCHANGED <<backend, dispatch>>

\* simulate_copy / simulate_paste, thread c: _set_pasting(True), which sets
\* the flag of the clipboard handler and then, through on_pasting_change,
\* HotkeyListener.is_pasting
SimBegin(c) ==
    /\ listener.sim[c].pc = "idle"
    /\ listener' = [listener EXCEPT !.is_pasting = TRUE,
                                    !.sim[c] = [SimIdle EXCEPT !.pc = "ctrl_down"]]
    /\ UNCHANGED <<backend, dispatch>>

\* a faulty variant: a keybd_event call that raises ends the simulation
\* without `finally`
SimKeyNoFinally(c) ==
    LET pc == listener.sim[c].pc
    IN /\ pc \in {"ctrl_down", "v_down", "v_up", "ctrl_up"}
       /\ \/ /\ listener' = [listener EXCEPT !.sim[c].pc = "idle", !.sim[c].failed = TRUE]
             /\ UNCHANGED dispatch
          \/ LET r == CASE pc = "ctrl_down" -> OnPress(listener, dispatch, "ctrl_l")
                         [] pc = "v_down"    -> OnPress(listener, dispatch, "V")
                         [] pc = "v_up"      -> OnRelease(listener, dispatch, "V")
                         [] pc = "ctrl_up"   -> OnRelease(listener, dispatch, "ctrl_l")
                 next == CASE pc = "ctrl_down" -> "v_down"
                           [] pc = "v_down"    -> "v_up"
                           [] pc = "v_up"      -> "ctrl_up"
                           [] pc = "ctrl_up"   -> "finally"
             IN Callback([r EXCEPT !.l.sim[c].pc = next])
       /\ UNCHANGED backend

\* one keybd_event call of the simulation (Ctrl down, letter down, letter up,
\* Ctrl up; copy and paste differ in the letter): it raises, or the listener
\* receives the keystroke
SimKey(c) ==
    LET pc == listener.sim[c].pc
    IN /\ pc \in {"ctrl_down", "v_down", "v_up", "ctrl_up"}
       /\ \/ /\ listener' = [listener EXCEPT !.sim[c].pc = "finally", !.sim[c].failed = TRUE]
             /\ UNCHANGED dispatch
          \/ LET r == CASE pc = "ctrl_down" -> OnPress(listener, dispatch, "ctrl_l")
                         [] pc = "v_down"    -> OnPress(listener, dispatch, "V")
                         [] pc = "v_up"      -> OnRelease(listener, dispatch, "V")
                         [] pc = "ctrl_up"   -> OnRelease(listener, dispatch, "ctrl_l")
                 next == CASE pc = "ctrl_down" -> "v_down"
                           [] pc = "v_down"    -> "v_up"
                           [] pc = "v_up"      -> "ctrl_up"
                           [] pc = "ctrl_up"   -> "finally"
             IN Callback([r EXCEPT !.l.sim[c].pc = next])
       /\ UNCHANGED backend

\* finally: _set_pasting(False). A simulation of another thread that is
\* still issuing keystrokes goes on with the flag cleared under it.
SimEnd(c) ==
    /\ listener.sim[c].pc = "finally"
    /\ listener' = [listener EXCEPT
          !.is_pasting = FALSE,
          !.sim = [b \in Execs |->
                     IF b = c THEN [@[b] EXCEPT !.pc = "idle"]
                     ELSE IF @[b].pc \in {"ctrl_down", "v_down", "v_up", "ctrl_up"}
                          THEN [@[b] EXCEPT !.overlapped = TRUE]
                          ELSE @[b]]]
    /\ UNCHANGED <<backend, dispatch>>

\* no hotkey is being handled
InitBackend ==
    /\ inputs = PlainInputs
    /\ clock = 0
    /\ keys = [q \in Providers |-> DefaultKeys(q)]
    /\ reg = RegInit(keys)
    /\ auto_switch = FALSE
    /\ adapter = "free"
    /\ genai_lock = NoEvent
    /\ current_task_event = NoEvent
    /\ cancel_event = [e \in Execs |-> FALSE]
    /\ th = [e \in Execs |-> ThreadInit]
    /\ worker = [e \in Execs |-> WorkerInit]
    /\ obs = [e \in Execs |-> ObsInit]

InitListener ==
    /\ InitBackend
    /\ \E table \in HotkeyTables : listener = ListenerInit(table)
    /\ dispatch = DispatchInit
    /\ clipboard = ClipboardInit

NextListener ==
    \/ \E raw \in RawKeys : PressKey(raw)
    \/ \E raw \in RawKeys : ReleaseKey(raw)
    \/ \E value \in BOOLEAN : SetPasting(value)

\* the keys of the user as the listener receives them, for every hotkey
\* table, with the pasting flag set and cleared at any time
SpecListener == InitListener /\ [][NextListener]_vars

\* a table in which the keystroke of a simulated paste is a hotkey
InitPasting ==
    /\ InitBackend
    /\ listener = ListenerInit(<< <<"Ctrl", "V">> >>)
    /\ dispatch = DispatchInit
    /\ clipboard = ClipboardInit

NextPasting ==
    \/ \E raw \in {"ctrl_l", "V"} : PressKey(raw)
    \/ \E raw \in {"ctrl_l", "V"} : ReleaseKey(raw)
    \/ \E c \in Execs : SimBegin(c)
    \/ \E c \in Execs : SimKey(c)
    \/ \E c \in Execs : SimEnd(c)

\* the handle_hotkey threads inside simulate_copy and simulate_paste, and
\* the user's keys, as the listener receives them
SpecPasting == InitPasting /\ [][NextPasting]_vars

\* ------------------------------------------------------ the dispatch queue
\* a faulty variant: the queue worker takes the next event only when no
\* generation is in flight
DrainerStepBlocking ==
    /\ dispatch.drainer = "running" /\ ~dispatch.exited
    /\ dispatch.queue # <<>>
    /\ genai_lock = NoEvent
    /\ LET event == Head(dispatch.queue)
       IN dispatch' = IF event = Sentinel
                      THEN [dispatch EXCEPT !.queue = Tail(@), !.drainer = "stopped"]
                      ELSE [dispatch EXCEPT !.queue = Tail(@),
                                            !.spawned = Append(@, event.n)]
    /\ UNCHANGED <<backend, listener>>

\* one turn of the queue worker that gets an event (a get that times out
\* changes nothing): None ends the loop, for any other event a daemon thread
\* running handle_hotkey is started
DrainerStep ==
    /\ dispatch.drainer = "running" /\ ~dispatch.exited
    /\ dispatch.queue # <<>>
    /\ LET event == Head(dispatch.queue)
       IN dispatch' = IF event = Sentinel
                      THEN [dispatch EXCEPT !.queue = Tail(@), !.drainer = "stopped"]
                      ELSE [dispatch EXCEPT !.queue = Tail(@),
                                            !.spawned = Append(@, event.n)]
    /\ UNCHANGED <<backend, listener>>

\* ClipGenApp.shutdown: hotkey_listener.stop() sets the stop event and
\* joins the listener thread for at most a second, then None is put on the
\* queue, and in the end the Qt application is told to quit
Shutdown ==
    /\ ~dispatch.sentinel
    /\ \E joined \in BOOLEAN :
          listener' = [listener EXCEPT !.running = ~joined]
    /\ dispatch' = [dispatch EXCEPT !.queue = Append(@, Sentinel),
                                    !.sentinel = TRUE, !.sentinel_at = dispatch.puts]
    /\ UNCHANGED backend

\* the listener thread, whose stop event is set, stops the pynput listener
ListenerStops ==
    /\ dispatch.sentinel /\ listener.running /\ ~dispatch.exited
    /\ listener' = [listener EXCEPT !.running = FALSE]
    /\ UNCHANGED <<backend, dispatch>>

\* the process ends: exec_() has returned and main calls sys.exit, which
\* waits for the listener thread, the only thread that is no daemon; the
\* queue worker and the handle_hotkey threads end with the process
Exit ==
    /\ dispatch.sentinel /\ ~listener.running /\ ~dispatch.exited
    /\ dispatch' = [dispatch EXCEPT !.exited = TRUE]
    /\ UNCHANGED <<backend, listener>>

\* the handle_hotkey thread started for the e-th dequeued event
Started(e) == e <= Len(dispatch.spawned) /\ ~dispatch.exited

\* one configured credential, a backend that answers with an error
InitQueue ==
    /\ InitWith({<<Cred(SECRET_OK, "Main Key", TRUE)>>}, {"always_503"}, {0},
                PlainInputs, PLAIN_HOTKEYS)
    /\ ~auto_switch

NextQueue ==
    \/ ~dispatch.exited /\ PressKey("f1")
    \/ DrainerStep
    \/ Shutdown
    \/ ListenerStops
    \/ Exit
    \/ \E e \in Execs : Started(e) /\ HandleHotkeyBegin(e)
    \/ \E e \in Execs : Started(e) /\ Acquire(e)
    \/ \E e \in Execs : Started(e) /\ Busy(e)
    \/ \E e \in Execs : Started(e) /\ Poll(e)
    \/ \E e \in Execs : Started(e) /\ WorkerFinish(e)
    \/ \E e \in Execs : Started(e) /\ Release(e)
    \/ \E e \in Execs : Started(e) /\ ClearEvent(e)

\* the queue worker is a thread of its own that waits for the queue only:
\* as long as the process lives it takes its next turn
SpecQueue == InitQueue /\ [][NextQueue]_vars /\ WF_vars(DrainerStep)

\* ------------------------------------------------------------------- claims
\* the credentials of the list are all configured secrets
AllConfigured(list) == \A i \in 1..Len(list) : list[i].key = SECRET_OK

\* every credential of the list carries a non-empty name
AllNamed(list) == \A i \in 1..Len(list) : list[i].name \notin {"", MISSING}

\* the credential after position i in the cyclic order of a list of n
Successor(i, n) == (i % n) + 1

\* C1: a process() call that finds genai_lock held by another call does not
\* wait for it: its acquire step can be taken at once, and the call that found
\* the lock held returns "" having called on_error once, without dispatching
\* a generation, rotating a credential or recording usage.
C1_BusyReturnsEmpty ==
    \A e \in Execs :
        /\ (th[e].pc = "acquire" /\ genai_lock # NoEvent) => ENABLED Acquire(e)
        /\ obs[e].busy =>
              /\ ~obs[e].acquired
              /\ obs[e].dispatches = 0
              /\ obs[e].switch_calls = 0
              /\ obs[e].usage = 0
              /\ worker[e].st = "none"
              /\ th[e].pc \in {"busy", "done"}
              /\ th[e].pc = "done" => (th[e].ret = "" /\ obs[e].p_on_error = 1)

\* C1 happens: a call has returned "" from the Busy branch while the call
\* that holds the lock is still waiting for its generation
C1_BusyWhileHeld ==
    \E e, d \in Execs :
        /\ e # d
        /\ obs[e].busy /\ th[e].pc = "done" /\ th[e].ret = ""
        /\ genai_lock = d /\ th[d].pc = "poll" /\ worker[d].st = "incall"

\* C2: as stated, at most one provider.generate call is in flight at any
\* time. (A cancelled call returns and releases the lock while its worker
\* thread is still inside generate, and the next call dispatches another.)
C2_OneGenerationInFlight ==
    Cardinality({e \in Execs : worker[e].st = "incall"}) <= 1

\* C3: as stated, while a call holds genai_lock, current_task_event is the
\* cancel event of that call, so that cancel_current reaches it.
C3_HolderOwnsCurrentEvent ==
    \A e \in Execs : genai_lock = e => current_task_event = e

\* C4: as stated, when the cancel event of a call is set while its worker
\* thread is still running, process() returns "" and nothing the worker
\* produces is returned or recorded as usage.
C4_CancelledWhileWorkerRuns ==
    \A e \in Execs :
        (th[e].pc = "release" /\ obs[e].cancelled_alive) =>
            (th[e].ret = "" /\ obs[e].usage = 0)

\* C5: as stated, a call cancelled while in flight never returns a
\* generation result.
C5_CancelledReturnsEmpty ==
    \A e \in Execs :
        (th[e].pc = "release" /\ obs[e].cancelled_in_flight) => ~Truthy(th[e].ret)

\* C6: a call that acquired genai_lock releases it exactly once before it
\* returns, whatever the outcome, and current_task_event is not its event
\* once it has returned; a call that did not acquire the lock never releases
\* it, so the holder keeps the lock until its own finally block.
C6_FinallyReleases ==
    \A e \in Execs :
        /\ th[e].pc = "done" =>
              /\ genai_lock # e
              /\ current_task_event # e
              /\ obs[e].releases = IF obs[e].acquired THEN 1 ELSE 0
        /\ th[e].pc \in {"poll", "release"} => (genai_lock = e /\ obs[e].releases = 0)
        /\ ~obs[e].acquired => obs[e].releases = 0

\* C6 happens: one call has returned after a cancellation, leaving its worker
\* behind, another after a success, and the lock is free
C6_ReleasedAfterCancelAndSuccess ==
    \E e, d \in Execs :
        /\ e # d
        /\ th[e].pc = "done" /\ obs[e].acquired /\ worker[e].st = "incall"
        /\ th[d].pc = "done" /\ obs[d].acquired /\ obs[d].on_success = 1
        /\ genai_lock = NoEvent

\* C7: as stated, with auto-switch on and K >= 2 credentials that all answer
\* with a quota error, one call rotates at most K - 1 times (it stops when
\* every credential was tried).
C7_RotationsBelowKeyCount ==
    \A e \in Execs :
        ( /\ adapter = "always_quota" /\ auto_switch
          /\ obs[e].nkeys >= 2
          /\ AllConfigured(keys[th[e].provider])
          /\ AllNamed(keys[th[e].provider]) ) =>
            obs[e].switch_calls <= obs[e].nkeys - 1

\* C8: as stated, when every credential answers with a quota error the call
\* returns "" and an error message is emitted through on_log.
C8_QuotaExhaustionLogged ==
    \A e \in Execs :
        ( /\ th[e].pc = "release"
          /\ adapter = "always_quota" /\ auto_switch
          /\ obs[e].nkeys >= 1
          /\ AllConfigured(keys[th[e].provider])
          /\ ~cancel_event[e] ) =>
            (th[e].ret = "" /\ obs[e].err_log >= 1)

\* C9: one call dispatches at most max(2 * K, 1) generations, K being the
\* number of credentials of its provider when it acquired the lock.
C9_AttemptsBounded ==
    \A e \in Execs :
        /\ th[e].pc \in {"poll", "release"} => obs[e].nkeys = Len(keys[th[e].provider])
        /\ obs[e].dispatches <= (IF obs[e].nkeys >= 1 THEN 2 * obs[e].nkeys ELSE 1)

\* C9 happens: a call over K >= 2 credentials has dispatched 2 * K generations
C9_BoundReached ==
    \E e \in Execs :
        /\ th[e].pc = "release"
        /\ obs[e].nkeys >= 2
        /\ obs[e].dispatches = 2 * obs[e].nkeys

\* C10: as stated, with auto-switch on and K >= 2 configured credentials, a
\* quota error on the first attempt followed by a success on the next one
\* makes the call return the result, having called on_key_switch once and
\* recorded one usage timestamp, on the credential after the first one and
\* on no other.
C10_QuotaThenSuccess ==
    \A e \in Execs :
        ( /\ th[e].pc = "release"
          /\ adapter = "quota_then_ok" /\ auto_switch
          /\ obs[e].nkeys >= 2
          /\ AllConfigured(keys[th[e].provider])
          /\ ~cancel_event[e] ) =>
            /\ th[e].ret = "R"
            /\ obs[e].key_switch = 1
            /\ obs[e].usage = 1
            /\ obs[e].used = Successor(obs[e].first_active, obs[e].nkeys)
            /\ LET ts == keys[th[e].provider][obs[e].used].usage_timestamps
               IN Len(ts) >= 1 /\ ts[Len(ts)] = clock
            /\ \A i \in 1..obs[e].nkeys :
                  i # obs[e].used =>
                      keys[th[e].provider][i].usage_timestamps = <<0>>

\* C11: with auto_switch_api_keys off, switch_to_next_key is never invoked,
\* and a call that ended on a quota error dispatched exactly one generation,
\* returns "" and leaves active the credential that was active at its
\* dispatch.
C11_NoRotationWithoutAutoSwitch ==
    \A e \in Execs :
        ~auto_switch =>
            /\ obs[e].switch_calls = 0
            /\ (th[e].pc = "release" /\ th[e].last_error \in QuotaErrors) =>
                  /\ obs[e].dispatches = 1
                  /\ th[e].ret = ""
                  /\ ActiveIndex(keys[th[e].provider]) = obs[e].first_active

\* C11 happens: a call over two credentials or more ended on a quota error
\* with auto-switch off
C11_QuotaWithoutAutoSwitch ==
    \E e \in Execs :
        /\ ~auto_switch
        /\ th[e].pc = "release" /\ th[e].last_error \in QuotaErrors
        /\ obs[e].nkeys >= 2 /\ obs[e].dispatches = 1

\* C12: a call whose adapter failed with an error that is not a quota error
\* stops there: the failed dispatch is its last one, the failure causes no
\* rotation (every rotation of the call answers an earlier quota error), one
\* error message goes through on_log and the call returns "". Against a
\* backend that only fails with 503 there is one dispatch and no rotation.
C12_OtherErrorBreaks ==
    \A e \in Execs :
        /\ (th[e].pc = "release" /\ th[e].last_error \in {ERR_503, ERR_CANCELLED}) =>
              /\ th[e].ret = ""
              /\ obs[e].err_log = 1
              /\ worker[e].n = obs[e].dispatches
              /\ worker[e].queue = Raised(th[e].last_error)
              /\ obs[e].switch_calls = obs[e].dispatches - 1
              /\ obs[e].usage = 0
        /\ adapter = "always_503" =>
              (obs[e].dispatches <= 1 /\ obs[e].switch_calls = 0)

\* C12 happens: after a quota error and a rotation, the second dispatch
\* failed with 503 and the call is about to return
C12_UnavailableAfterRotation ==
    \E e \in Execs :
        /\ th[e].pc = "release" /\ th[e].last_error = ERR_503
        /\ obs[e].dispatches = 2 /\ obs[e].switch_calls = 1
        /\ obs[e].err_log = 1 /\ th[e].ret = ""

\* the secrets that are no usable credential: the empty one, the shipped
\* placeholder and the hand-made one
UnusableSecrets == {SECRET_EMPTY, SECRET_DEFAULT, SECRET_YOURKEY}

\* no credential of the list is active, or the active one has no usable secret
NoUsableKey(list) ==
    ActiveIndex(list) = 0 \/ list[ActiveIndex(list)].key \in UnusableSecrets

\* C13: as stated, an attempt that starts without an active credential, or
\* with an active credential whose secret is empty or a placeholder (the
\* shipped "YOUR_API_KEY_HERE" included), dispatches nothing: no call waits
\* for a worker on such a credential, and the call returns "" after on_error.
C13_UnusableKeyNotDispatched ==
    \A e \in Execs :
        /\ th[e].pc = "poll" => ~NoUsableKey(keys[th[e].provider])
        /\ (th[e].pc = "release" /\ NoUsableKey(keys[th[e].provider])) =>
              (th[e].ret = "" /\ obs[e].p_on_error = 1)

C15_ExactlyOneActive ==
    reg.one_at_start =>
        LET list == keys[reg.p]
        IN /\ Len(list) > 0 => ExactlyOneActive(list)
           /\ (reg.op = "delete" /\ reg.was_active /\ Len(list) > 0) =>
                  ActiveSet(list) = {1}

\* C15 happens: the active credential of a list of three was deleted
C15_ActiveDeleted ==
    /\ reg.one_at_start
    /\ reg.op = "delete" /\ reg.was_active
    /\ Len(keys[reg.p]) = 2 /\ ActiveSet(keys[reg.p]) = {1}

\* C16: as stated, whenever the active flags or the usage timestamps of a
\* credential list were written, the writer was the UI thread or the
\* process() call holding genai_lock, never the welcome-message thread or a
\* key-test thread.
C16_WritersAreUiOrLockHolder ==
    ( \/ reg.op = "stamp"
      \/ (reg.op = "switch" /\ Flags(keys[reg.p]) # reg.before) ) =>
        reg.by \in {"ui", "process"}

\* the positions of a sequence of flags that are TRUE
TrueSet(flags) == {i \in 1..Len(flags) : flags[i]}

\* C17: N consecutive switch_to_next_key calls on a list of N >= 2
\* credentials, exactly one of them active, leave the flags as they were, and
\* the k-th call made active the k-th credential after the original one in
\* the cyclic order of the list.
C17_RoundRobinClosure ==
    ( /\ reg.op = "switch"
      /\ Len(reg.start) >= 2 /\ reg.n = Len(reg.start)
      /\ Cardinality(TrueSet(reg.start)) = 1 ) =>
        LET N == Len(reg.start)
            orig == CHOOSE i \in TrueSet(reg.start) : TRUE
        IN /\ Flags(keys[reg.p]) = reg.start
           /\ reg.seq = [k \in 1..N |-> ((orig - 1 + k) % N) + 1]

\* C17 happens: three calls on a list of three whose second credential was
\* the active one
C17_ThreeCallsOnThree ==
    /\ reg.op = "switch" /\ reg.n = 3
    /\ reg.start = <<FALSE, TRUE, FALSE>>
    /\ reg.seq = <<3, 1, 2>>

\* the first position of a sequence of flags that is TRUE, 0 when none is
FirstTrue(flags) ==
    IF TrueSet(flags) = {} THEN 0
    ELSE CHOOSE i \in TrueSet(flags) : \A j \in TrueSet(flags) : i <= j

\* C18: as stated, switch_to_next_key on two credentials or more deactivates
\* the first active credential, activates the one after it (the first one
\* when none was active), leaves the other flags alone and returns the name
\* of the newly active credential, or "Key N" for its position N when it has
\* no name: never an empty name, never None.
C18_SwitchReturnsLabel ==
    (reg.op = "switch" /\ Len(reg.before) >= 2) =>
        LET list == keys[reg.p]
            N == Len(reg.before)
            i == FirstTrue(reg.before)
            nxt == (i % N) + 1
        IN /\ \A j \in 1..N :
                 list[j].active = IF j = nxt THEN TRUE
                                  ELSE IF j = i THEN FALSE
                                  ELSE reg.before[j]
           /\ reg.ret = IF list[nxt].name \in {"", MISSING}
                        THEN FALLBACK_LABELS[nxt]
                        ELSE list[nxt].name

\* C19: switch_to_next_key on a list of no or one credential returns None,
\* leaves every active flag as it was and does not call reconfigure.
C19_SwitchNeedsTwo ==
    (reg.op = "switch" /\ Len(keys[reg.p]) < 2) =>
        /\ reg.ret = None
        /\ Flags(keys[reg.p]) = reg.before
        /\ ~reg.reconfigured

\* C19 happens: the call was made on a single named credential with a
\* secret, which was not active
C19_SingleInactive ==
    /\ reg.op = "switch" /\ reg.ret = None
    /\ Len(keys[reg.p]) = 1
    /\ ~keys[reg.p][1].active
    /\ keys[reg.p][1].name = "Main Key" /\ keys[reg.p][1].key = SECRET_OK

\* C20: as stated, a call in which switch_to_next_key changed the active
\* credential has called the save callback by the time it returns.
C20_RotationSaved ==
    \A e \in Execs :
        (th[e].pc = "release" /\ obs[e].nkeys >= 2 /\ obs[e].switch_calls >= 1) =>
            obs[e].saves >= 1

\* C21: after a usage recording at time now (the value of clock), every
\* entry of the usage_timestamps of the recorded credential is younger than
\* 86400 seconds at now, now is one of them, and what was dropped of the
\* prior entries is what was not younger.
C21_RecordingKeepsOneDay ==
    reg.op = "record" =>
        LET ts == keys[reg.p][reg.at].usage_timestamps
            kept == {t \in Times : clock - t < 86400}
        IN /\ \A k \in 1..Len(ts) : clock - ts[k] < 86400
           /\ Len(ts) >= 1 /\ ts[Len(ts)] = clock
           /\ Len(ts) = 1 + Cardinality({k \in 1..Len(reg.prior) : reg.prior[k] \in kept})

\* C21 happens: a recording a day after the start dropped the entry of the
\* start and kept the one of a second later
C21_OldEntryDropped ==
    /\ reg.op = "record" /\ clock = DAY_SECONDS
    /\ reg.prior = <<0, 1>>
    /\ keys[reg.p][reg.at].usage_timestamps = <<1, DAY_SECONDS>>

\* C22: an execution that captured empty clipboard content calls on_error
\* and nothing else after on_start: it published no cancel event, took no
\* lock, started no worker and made no adapter call, recorded no usage on
\* any credential, saved nothing, wrote nothing to the clipboard and
\* simulated no paste
C22_EmptyClipboardOnlyErrors ==
    obs[1].content = "empty" =>
        /\ th[1].pc = "done"
        /\ obs[1].events = <<"on_start", "on_error">>
        /\ obs[1].on_error = 1 /\ obs[1].on_success = 0
        /\ ~obs[1].acquired /\ obs[1].releases = 0 /\ genai_lock = NoEvent
        /\ current_task_event = NoEvent
        /\ worker[1] = WorkerInit /\ obs[1].dispatches = 0
        /\ obs[1].usage = 0 /\ obs[1].saves = 0
        /\ \A p \in Providers : \A i \in 1..Len(keys[p]) :
              keys[p][i].usage_timestamps \in {<<>>, <<0>>}

\* an execution met an empty clipboard and ended
C22_EmptyHandled ==
    /\ obs[1].content = "empty" /\ th[1].pc = "done"
    /\ obs[1].on_error = 1 /\ AllConfigured(keys["gemini"])

\* the start of the explanation thread is no notification of the main
\* operation
NotExplain(ev) == ev # "explain"

MainEvents(e) == SelectSeq(obs[e].events, NotExplain)

\* C23 (as stated): after process() returned a non-empty result R the
\* execution wrote R to the clipboard, then simulated the paste, then logged
\* R and called on_success, and called on_error at no point
C23_ResultPasted ==
    (th[1].pc = "done" /\ Truthy(th[1].ret)) =>
        /\ MainEvents(1) = <<"on_start", "set_text", "paste", "log_result", "on_success">>
        /\ obs[1].on_error = 0 /\ obs[1].on_success = 1

\* C23 (amended): the same when neither clipboard.set_text nor
\* simulate_paste raises; when one of them raises, the execution logs the
\* error and calls on_error once, simulates no completed paste, logs no
\* result and does not call on_success
C23_ResultPastedUnlessClipboardFails ==
    (th[1].pc = "done" /\ Truthy(th[1].ret)) =>
        /\ obs[1].clip = "ok" =>
              /\ MainEvents(1) = <<"on_start", "set_text", "paste", "log_result", "on_success">>
              /\ obs[1].on_error = 0 /\ obs[1].on_success = 1
        /\ obs[1].clip = "set_text_raises" =>
              /\ MainEvents(1) = <<"on_start", "log_error", "on_error">>
              /\ obs[1].on_error = 1 /\ obs[1].on_success = 0
        /\ obs[1].clip = "paste_raises" =>
              /\ MainEvents(1) = <<"on_start", "set_text", "log_error", "on_error">>
              /\ obs[1].on_error = 1 /\ obs[1].on_success = 0

\* a result obtained after a rotation was written and pasted
C23_PastedAfterRotation ==
    /\ th[1].pc = "done" /\ th[1].ret = "R" /\ obs[1].clip = "ok"
    /\ adapter = "quota_then_ok" /\ obs[1].on_success = 1
    /\ obs[1].content = "image"

\* what a finished execution e has notified: on_success alone when its
\* result was pasted, on_error and no on_success otherwise
Notified(e) ==
    IF Truthy(th[e].ret) /\ obs[e].clip = "ok"
    THEN obs[e].on_success = 1 /\ obs[e].on_error = 0
    ELSE obs[e].on_success = 0 /\ obs[e].on_error >= 1

\* execution e is in process() at a point from which its thread or its
\* worker thread has a next step: it waits for nothing but the end of the
\* backend call of a running worker
CanStep(e) ==
    \/ th[e].pc \in {"acquire", "busy", "release", "clear"}
    \/ th[e].pc = "poll" /\ worker[e].st \in {"incall", "dead"}

\* C24: every execution calls on_start before anything else and only once;
\* until it has ended it is never stuck, and its retry loop has a bounded
\* number of turns; when it has ended it has called on_error at least once
\* if it failed (empty clipboard, Busy, missing key, cancellation, adapter
\* error, exhausted attempts, a clipboard operation that raised) and
\* on_success, without on_error, if it succeeded
C24_StartThenTerminalNotification ==
    \A e \in Execs :
        /\ th[e].pc # "idle" => (obs[e].events # <<>> /\ obs[e].events[1] = "on_start")
        /\ \A k \in 2..Len(obs[e].events) : obs[e].events[k] # "on_start"
        /\ th[e].pc \notin {"idle", "done"} =>
              (CanStep(e) /\ th[e].attempt <= th[e].max_attempts)
        /\ th[e].pc = "done" =>
              (Notified(e) /\ obs[e].events[Len(obs[e].events)] \in {"on_error", "on_success"})

\* an execution that found the lock held and the execution that held it
\* have both ended, the first with two on_error calls, the second with
\* on_success
C24_BusyAndSuccessNotified ==
    /\ th[1].pc = "done" /\ th[2].pc = "done"
    /\ obs[2].busy /\ obs[2].on_error = 2 /\ obs[2].on_success = 0
    /\ obs[1].on_success = 1 /\ obs[1].events[1] = "on_start"

\* C25: whatever the backend answered, a call of process() ends with a
\* string as its return value, the result when there is one and "" in every
\* other case (a raised error, an empty answer, a missing key, a
\* cancellation, exhausted attempts); no exception leaves it
C25_ProcessReturnsString ==
    /\ th[1].pc = "release" =>
           th[1].ret = IF Truthy(th[1].success_result) THEN th[1].success_result ELSE ""
    /\ (th[1].pc \in {"release", "clear", "done"} /\ obs[1].content \in ClipContents) =>
           th[1].ret \in {"", "R"}

\* process() is about to return after an error that is no quota error
C25_ErrorReturnsEmpty ==
    /\ th[1].pc = "release" /\ th[1].last_error = ERR_503
    /\ th[1].ret = "" /\ obs[1].err_log = 1

\* C26: an explanation thread exists only for an execution whose
\* process() returned a non-empty result, whose hotkey is in learning mode
\* and whose content was text, and it is started after the result was
\* written to the clipboard; its cancel event is not the one cancel_current()
\* sets, so it is never cancelled; and whatever state it is in (running,
\* skipped, answered, answered with nothing, failed) the main operation
\* makes the calls it makes without it: with working clipboard operations
\* it pastes and calls on_success and never on_error
C26_ExplanationIsIndependent ==
    obs[1].explain # "none" =>
        /\ th[1].pc = "done" /\ Truthy(th[1].ret)
        /\ obs[1].learning /\ obs[1].content = "text"
        /\ \E k \in 2..Len(obs[1].events) :
              obs[1].events[k] = "explain" /\ obs[1].events[k - 1] = "set_text"
        /\ obs[1].explain # "cancelled" /\ ~obs[1].expl_cancelled
        /\ obs[1].clip = "ok" =>
              /\ MainEvents(1) = <<"on_start", "set_text", "paste", "log_result", "on_success">>
              /\ obs[1].on_success = 1 /\ obs[1].on_error = 0
        /\ obs[1].clip = "paste_raises" =>
              MainEvents(1) = <<"on_start", "set_text", "log_error", "on_error">>

\* the explanation request failed after a main operation that succeeded
\* although cancel_current() had set its event
C26_ExplanationFailedMainSucceeded ==
    /\ obs[1].explain = "failed" /\ obs[1].cancel_called
    /\ obs[1].on_success = 1 /\ obs[1].on_error = 0

\* C27: the last key press put an event on the queue only for a table entry
\* whose main key is the key pressed, a key that is no modifier, and whose
\* modifiers are exactly the modifiers tracked as pressed; it put at most
\* one event, the newest of the queue
C27_ExactModifierMatch ==
    LET last == listener.last
    IN /\ Len(last.put) <= 1
       /\ last.put # <<>> =>
             LET combination == listener.hotkeys[last.put[1]]
             IN /\ last.press /\ last.key \notin Modifiers
                /\ last.key = MainKey(combination)
                /\ listener.key_states = RequiredModifiers(combination)
                /\ dispatch.queue # <<>>
                /\ dispatch.queue[Len(dispatch.queue)] =
                      [action |-> last.put[1], n |-> dispatch.puts]

\* with Ctrl and Alt pressed, F1 did not trigger the Ctrl+F1 entry before
\* the Alt+Ctrl+F1 entry, which it triggered
C27_ExtraModifierSkipsEntry ==
    /\ listener.hotkeys = << <<"Ctrl", "F1">>, <<"Alt", "Ctrl", "F1">> >>
    /\ listener.key_states = {"ctrl", "alt"}
    /\ listener.last.key = "f1" /\ listener.last.put = <<2>>
    /\ Len(dispatch.queue) = 1

\* the points of a simulation at which it issues keystrokes
KeyPhases == {"ctrl_down", "v_down", "v_up", "ctrl_up"}

\* C28: a key press that arrived while the pasting flag was set put no
\* event on the queue; a simulation that issues its keystrokes has set the
\* flag, which is still set unless the end of another thread's simulation
\* cleared it; and when no simulation is in progress the flag is clear,
\* also after a simulation whose keybd_event call raised
C28_PastingSuppressesHotkeys ==
    /\ listener.last.pasting => listener.last.put = <<>>
    /\ \A c \in Execs :
          (listener.sim[c].pc \in KeyPhases /\ ~listener.sim[c].overlapped) =>
              listener.is_pasting
    /\ (\A c \in Execs : listener.sim[c].pc = "idle") => ~listener.is_pasting

\* with Ctrl held by the user, the V of a simulated paste reached the
\* listener under the flag and triggered nothing; the next keybd_event call
\* raised, and the flag is clear
C28_FailedSimulationCleared ==
    /\ listener.sim[1].pc = "idle" /\ listener.sim[1].failed
    /\ ~listener.is_pasting
    /\ listener.key_states = {"ctrl"}
    /\ listener.last = [key |-> "v", press |-> TRUE, pasting |-> TRUE, put |-> <<>>]
    /\ dispatch.queue = <<>>

\* event n was put on the queue before shutdown() put None
PutBeforeSentinel(n) ==
    n <= dispatch.puts /\ (dispatch.sentinel => n <= dispatch.sentinel_at)

\* a handle_hotkey thread was started for event n
StartedFor(n) == \E k \in 1..Len(dispatch.spawned) : dispatch.spawned[k] = n

\* what holds of the queue worker at any time: no event has two executions
\* and every execution is that of an event put before None; a worker that
\* is running finds its next turn enabled whenever the queue holds
\* something, whoever holds the generation lock; a worker that met None
\* leaves what is behind it on the queue
DrainerSafe ==
    /\ \A j, k \in 1..Len(dispatch.spawned) :
          dispatch.spawned[j] = dispatch.spawned[k] => j = k
    /\ \A k \in 1..Len(dispatch.spawned) : PutBeforeSentinel(dispatch.spawned[k])
    /\ (dispatch.drainer = "running" /\ ~dispatch.exited /\ dispatch.queue # <<>>)
          => ENABLED DrainerStep
    /\ dispatch.drainer = "stopped" =>
          /\ ~ENABLED DrainerStep
          /\ \A n \in 1..dispatch.sentinel_at : StartedFor(n)

\* C29 (as stated): DrainerSafe, and every event put before None is in the
\* end dequeued and given an execution
C29_EveryEventStarts ==
    /\ []DrainerSafe
    /\ \A n \in 1..MaxQueue : PutBeforeSentinel(n) ~> StartedFor(n)

\* C29 (amended): DrainerSafe, and every event put before None is in the
\* end dequeued and given an execution unless the process ends first:
\* shutdown() does not wait for the queue worker, a daemon thread
C29_EveryEventStartsUnlessExit ==
    /\ []DrainerSafe
    /\ \A n \in 1..MaxQueue : PutBeforeSentinel(n) ~> (StartedFor(n) \/ dispatch.exited)

\* the second event was dequeued and its thread found the generation lock
\* held by the first execution, whose backend call is in flight; the worker
\* then met None and ended
C29_DequeuedWhileLockHeld ==
    /\ dispatch.spawned = <<1, 2>>
    /\ genai_lock = 1 /\ worker[1].st = "incall" /\ th[2].pc = "busy"
    /\ dispatch.drainer = "stopped" /\ dispatch.sentinel_at = 2

\* C30 (as stated): against a backend whose responses carry no usable text,
\* generate of either adapter ends with an error on the worker's queue, never
\* with an empty or null value, and the call that dispatched it returns ""
\* with an error message emitted through on_log.
C30_EmptyResponseRaised ==
    \A e \in Execs :
        adapter = "always_empty" =>
            /\ worker[e].st = "dead" => worker[e].queue.kind = "error"
            /\ ( /\ th[e].pc = "release" /\ worker[e].st = "dead"
                 /\ obs[e].dispatches >= 1 /\ worker[e].n = obs[e].dispatches
                 /\ ~obs[e].abandoned ) =>
                    (th[e].ret = "" /\ obs[e].err_log >= 1)

\* ------------------------------------------------------- the hotkey manager
\* the default of HotkeyManager.add, and what the key sequence editor of a
\* hotkey card can deliver
NEW_COMBINATION == <<"Ctrl", "F9">>
EditCombinations == Combinations \cup {NEW_COMBINATION, <<"ctrl", "F1">>}

\* combination.lower() of a combination given by its parts
LowerCombination(combination) ==
    [k \in 1..Len(combination) |-> Lower(combination[k])]

\* HotkeyManager.is_combination_used; indices count from 0 as in the source
IsCombinationUsed(table, combination, exclude_index) ==
    \E i \in 0..(Len(table) - 1) :
        /\ i # exclude_index
        /\ LowerCombination(table[i + 1]) = LowerCombination(combination)

\* del hotkeys[index]
DeletedHotkey(table, index) ==
    [k \in 1..(Len(table) - 1) |-> IF k <= index THEN table[k] ELSE table[k + 1]]

\* MainWindow._add_hotkey: HotkeyManager.add() with its defaults appends the
\* new entry and saves
ManagerAdd ==
    /\ Len(listener.hotkeys) < MaxHotkeys
    /\ listener' = [listener EXCEPT !.hotkeys = Append(@, NEW_COMBINATION)]
    /\ UNCHANGED <<backend, dispatch>>

\* HotkeyManager.delete(index): False for an index out of range
ManagerDelete(index) ==
    /\ listener' = [listener EXCEPT !.hotkeys =
                       IF 0 <= index /\ index < Len(@)
                       THEN DeletedHotkey(@, index) ELSE @]
    /\ UNCHANGED <<backend, dispatch>>

\* HotkeyManager.update_combination(index, combination), called for the
\* combination_changed signal of a hotkey card: False for an index out of
\* range, otherwise the entry takes the combination
ManagerUpdateCombination(index, combination) ==
    /\ listener' = [listener EXCEPT !.hotkeys =
                       IF 0 <= index /\ index < Len(@)
                       THEN [@ EXCEPT ![index + 1] = combination] ELSE @]
    /\ UNCHANGED <<backend, dispatch>>

\* no two entries of the table have the same combination
UniqueCombinations(table) ==
    \A i \in 0..(Len(table) - 1) : ~IsCombinationUsed(table, table[i + 1], i)

InitHotkeys ==
    /\ InitBackend
    /\ \E table \in {<<>>} \cup HotkeyTables :
          /\ UniqueCombinations(table)
          /\ listener = ListenerInit(table)
    /\ dispatch = DispatchInit
    /\ clipboard = ClipboardInit

NextHotkeys ==
    \/ ManagerAdd
    \/ \E index \in 0..MaxHotkeys : ManagerDelete(index)
    \/ \E index \in 0..MaxHotkeys, combination \in EditCombinations :
          ManagerUpdateCombination(index, combination)
    \/ \E raw \in {"ctrl_l", "f1"} : PressKey(raw)
    \/ \E raw \in {"ctrl_l", "f1"} : ReleaseKey(raw)

\* the edits of the hotkey table through the manager, and the user's keys
SpecHotkeys == InitHotkeys /\ [][NextHotkeys]_vars

\* C31 (as stated): after any sequence of add, update_combination and delete
\* no two entries of the hotkey table have the same combination.
C31_CombinationsUnique == UniqueCombinations(listener.hotkeys)

\* ------------------------------------------- the clipboard of handle_hotkey
\* what the clipboard steps of handle_hotkey and the lock of process() leave
\* alone
beside_clipboard == <<keys, auto_switch, adapter, clock, current_task_event,
                      cancel_event, th, worker, obs, reg, inputs, listener,
                      dispatch>>

\* simulate_copy of thread c: the focused window answers Ctrl+C by putting
\* its selection on the clipboard
SimulateCopy(c) ==
    /\ clipboard.h[c].pc = "idle"
    /\ clipboard' = [clipboard EXCEPT !.text = SELECTION, !.h[c].pc = "copied"]
    /\ UNCHANGED <<beside_clipboard, genai_lock>>

\* get_content() of thread c reads the clipboard
GetContent(c) ==
    /\ clipboard.h[c].pc = "copied"
    /\ clipboard' = [clipboard EXCEPT !.h[c].pc = "process",
                                      !.h[c].content = clipboard.text]
    /\ UNCHANGED <<beside_clipboard, genai_lock>>

\* process() of thread c up to genai_lock.acquire(blocking=False): Busy
\* returns "", and handle_hotkey ends without touching the clipboard
ProcessEnter(c) ==
    /\ clipboard.h[c].pc = "process"
    /\ IF genai_lock = NoEvent
       THEN /\ genai_lock' = c
            /\ clipboard' = [clipboard EXCEPT !.h[c].pc = "incall"]
       ELSE /\ clipboard' = [clipboard EXCEPT !.h[c].pc = "done"]
            /\ UNCHANGED genai_lock
    /\ UNCHANGED beside_clipboard

\* process() of thread c returns and releases the lock: with its result
\* or with ""
ProcessReturn(c) ==
    /\ clipboard.h[c].pc = "incall"
    /\ genai_lock' = NoEvent
    /\ \E ok \in BOOLEAN :
          clipboard' = [clipboard EXCEPT
              !.h[c].pc = IF ok THEN "set_text" ELSE "done",
              !.h[c].result = IF ok THEN ResultOf(c) ELSE NoClip]
    /\ UNCHANGED beside_clipboard

\* `if result: self.clipboard.set_text(result)`
SetText(c) ==
    /\ clipboard.h[c].pc = "set_text"
    /\ clipboard' = [clipboard EXCEPT !.text = clipboard.h[c].result,
                                      !.h[c].pc = "paste"]
    /\ UNCHANGED <<beside_clipboard, genai_lock>>

\* simulate_paste of thread c: the focused window answers Ctrl+V by
\* inserting what the clipboard holds
SimulatePaste(c) ==
    /\ clipboard.h[c].pc = "paste"
    /\ clipboard' = [clipboard EXCEPT !.h[c].pc = "done",
                                      !.h[c].pasted = clipboard.text]
    /\ UNCHANGED <<beside_clipboard, genai_lock>>

InitClipboard ==
    /\ InitBackend
    /\ listener = ListenerInit(DEFAULT_HOTKEYS)
    /\ dispatch = DispatchInit
    /\ clipboard = ClipboardInit

NextClipboard ==
    \E c \in Execs :
        \/ SimulateCopy(c)
        \/ GetContent(c)
        \/ ProcessEnter(c)
        \/ ProcessReturn(c)
        \/ SetText(c)
        \/ SimulatePaste(c)

\* the handle_hotkey threads the queue worker started, each seen through
\* its clipboard steps and the lock of process()
SpecClipboard == InitClipboard /\ [][NextClipboard]_vars

\* C32 (as stated): from the clipboard write of an execution to its
\* simulated paste the clipboard holds the result of that execution, and
\* what the paste inserts is that result.
C32_PastesOwnResult ==
    \A c \in Execs :
        /\ clipboard.h[c].pc = "paste" => clipboard.text = clipboard.h[c].result
        /\ clipboard.h[c].pasted # NoClip => clipboard.h[c].pasted = clipboard.h[c].result

\* C33 (as stated): an execution that has ended has made exactly one
\* terminal notification, one on_success or one on_error, and an execution
\* still running none beyond that one.
C33_OneTerminalNotification ==
    \A e \in Execs :
        /\ obs[e].on_success + obs[e].on_error <= 1
        /\ th[e].pc = "done" => obs[e].on_success + obs[e].on_error = 1

\* ------------------------------------- a rotation under edits of the list
\* switch_to_next_key on a thread that is not the UI thread, from its entry
\* to the length test: None for fewer than two credentials
RotateBegin ==
    /\ reg.rot.pc = "idle"
    /\ reg' = [reg EXCEPT !.rot.pc = IF Len(keys[reg.p]) < 2 THEN "done" ELSE "find"]
    /\ UNCHANGED <<keys, clock>>
    /\ Untouched

\* the loop that looks for the first active credential; current_index
\* counts from 0 and stays -1 when there is none
RotateFind ==
    /\ reg.rot.pc = "find"
    /\ reg' = [reg EXCEPT !.rot.pc = "deactivate",
                          !.rot.current_index = ActiveIndex(keys[reg.p]) - 1]
    /\ UNCHANGED <<keys, clock>>
    /\ Untouched

\* `if current_index >= 0: keys[current_index]["active"] = False`, on the
\* list as it is now; an index beyond its end raises IndexError
RotateDeactivate ==
    /\ reg.rot.pc = "deactivate"
    /\ LET ci == reg.rot.current_index
       IN IF ci < 0
          THEN /\ reg' = [reg EXCEPT !.rot.pc = "activate"]
               /\ UNCHANGED keys
          ELSE IF ci >= Len(keys[reg.p])
          THEN /\ reg' = [reg EXCEPT !.rot.pc = "raised"]
               /\ UNCHANGED keys
          ELSE /\ reg' = [reg EXCEPT !.rot.pc = "activate"]
               /\ keys' = [keys EXCEPT ![reg.p][ci + 1].active = FALSE]
    /\ UNCHANGED clock
    /\ Untouched

\* `next_index = (current_index + 1) % len(keys)` and
\* `keys[next_index]["active"] = True`, on the list as it is now; an empty
\* list raises ZeroDivisionError
RotateActivate ==
    /\ reg.rot.pc = "activate"
    /\ IF Len(keys[reg.p]) = 0
       THEN /\ reg' = [reg EXCEPT !.rot.pc = "raised"]
            /\ UNCHANGED keys
       ELSE LET next_index == (reg.rot.current_index + 1) % Len(keys[reg.p])
            IN /\ reg' = [reg EXCEPT !.rot.pc = "done"]
               /\ keys' = [keys EXCEPT ![reg.p][next_index + 1].active = TRUE]
    /\ UNCHANGED clock
    /\ Untouched

\* lists as the UI operations leave them: empty, or with one active
\* credential
InitRotation ==
    /\ InitReg({TRUE})
    /\ keys[reg.p] = <<>> \/ ExactlyOneActive(keys[reg.p])

NextRotation ==
    \/ RotateBegin
    \/ RotateFind
    \/ RotateDeactivate
    \/ RotateActivate
    \/ AddKey
    \/ DeleteKey
    \/ ActivateKey

\* one rotation, step by step, while the UI thread adds, deletes and
\* activates credentials of the same list
SpecRotation == InitRotation /\ [][NextRotation]_vars

\* C34 (as stated): once the rotation has ended, the list is empty or has
\* exactly one active credential, whatever the UI thread did between the
\* steps of the rotation.
C34_OneActiveAfterRotation ==
    reg.rot.pc \in {"done", "raised"} =>
        (keys[reg.p] = <<>> \/ ExactlyOneActive(keys[reg.p]))

\* C35 (as stated): a call on a list of two or more credentials, whatever
\* their names, has emitted on_key_switch for every rotation it made, and
\* while attempts remained went into a further turn of its loop after each
\* rotation.
C35_RotationAnnouncedAndRetried ==
    \A e \in Execs :
        (th[e].pc \in {"poll", "release"} /\ obs[e].nkeys >= 2) =>
            /\ obs[e].key_switch = obs[e].switch_calls
            /\ th[e].attempt < th[e].max_attempts =>
                  th[e].attempt >= obs[e].switch_calls + 1

\* --------------------------------------------- the keyboard and key_states
\* the modifiers held down after the key `raw` went down or up
Held(l, raw, press) ==
    LET key_name == GetKeyName(raw)
    IN [l EXCEPT !.held = IF key_name \notin Modifiers THEN @
                          ELSE IF press THEN @ \cup {key_name}
                          ELSE @ \ {key_name}]

\* the user presses a key on the keyboard: pynput calls _on_press
UserPress(raw) ==
    /\ listener.running
    /\ Callback([OnPress(listener, dispatch, raw) EXCEPT !.l = Held(@, raw, TRUE)])
    /\ UNCHANGED backend

\* the user releases a key: pynput calls _on_release
UserRelease(raw) ==
    /\ listener.running
    /\ Callback([OnRelease(listener, dispatch, raw) EXCEPT !.l = Held(@, raw, FALSE)])
    /\ UNCHANGED backend

InitModifiers ==
    /\ InitBackend
    /\ listener = ListenerInit(DEFAULT_HOTKEYS)
    /\ dispatch = DispatchInit
    /\ clipboard = ClipboardInit

NextModifiers ==
    \/ \E raw \in {"ctrl_l", "alt_gr", "f1"} : UserPress(raw)
    \/ \E raw \in {"ctrl_l", "alt_gr", "f1"} : UserRelease(raw)
    \/ SimBegin(1)
    \/ SimKey(1)
    \/ SimEnd(1)

\* the user's keyboard while one handle_hotkey thread simulates its copy
\* and paste keystrokes
SpecModifiers == InitModifiers /\ [][NextModifiers]_vars

\* C36 (as stated): whenever is_pasting is false, key_states records as
\* pressed exactly the modifiers that are held down.
C36_ModifiersTracked ==
    ~listener.is_pasting => listener.key_states = listener.held

\* ------------------------------------------ the key the adapter is set to
\* GeminiProvider.get_active_key_value: None without an active credential
ActiveKeyValue(list) ==
    IF ActiveIndex(list) = 0 THEN NoApiKey ELSE list[ActiveIndex(list)].key

\* GeminiProvider._configure_initial: genai.configure(api_key=key)
\* `if key and key != "YOUR_API_KEY_HERE"`; cur is the key set before
ConfigureInitial(list, cur) ==
    LET key == ActiveKeyValue(list)
    IN IF key # NoApiKey /\ key # SECRET_EMPTY /\ key # SECRET_DEFAULT
       THEN key ELSE cur

\* switch_to_next_key: `if new_key: self.reconfigure(new_key)`
Reconfigured(list, cur) ==
    IF SwitchReconfigures(list) THEN ActiveKeyValue(SwitchedKeys(list)) ELSE cur

\* what the user types into the field of a credential
EditedSecrets == {SECRET_OK, SECRET_2, SECRET_EMPTY}

\* Gemini lists with one active credential
ConfigureLists ==
    { [i \in 1..n |-> Cred(f[i], "Main Key", i = a)] :
        n \in 1..MaxKeys, a \in 1..MaxKeys, f \in [1..MaxKeys -> EditedSecrets] }

\* MainWindow._activate_key of row i of the Gemini list, which ends with
\* self.app.gemini._configure_initial()
ConfigureActivate(i) ==
    /\ i \in 1..Len(keys["gemini"])
    /\ keys' = [keys EXCEPT !["gemini"] = ActivatedKey(@, i)]
    /\ reg' = [Edited("ui", "activate", FALSE) EXCEPT
                  !.genai_key = ConfigureInitial(ActivatedKey(keys["gemini"], i), @)]
    /\ UNCHANGED clock
    /\ Untouched

\* switch_to_next_key of the Gemini adapter
ConfigureSwitch ==
    /\ keys' = [keys EXCEPT !["gemini"] = SwitchedKeys(@)]
    /\ reg' = [Switched("process") EXCEPT
                  !.genai_key = Reconfigured(keys["gemini"], @)]
    /\ UNCHANGED clock
    /\ Untouched

\* MainWindow._delete_key of row i, confirmed: the list is saved and the
\* window refreshed
ConfigureDelete(i) ==
    /\ i \in 1..Len(keys["gemini"])
    /\ keys' = [keys EXCEPT !["gemini"] = DeletedKey(@, i)]
    /\ reg' = Edited("ui", "delete", keys["gemini"][i].active)
    /\ UNCHANGED clock
    /\ Untouched

\* MainWindow._update_key of row i: the secret is replaced and the list
\* saved
ConfigureUpdate(i, text) ==
    /\ i \in 1..Len(keys["gemini"])
    /\ keys' = [keys EXCEPT !["gemini"][i].key = text]
    /\ reg' = Edited("ui", "update", keys["gemini"][i].active)
    /\ UNCHANGED clock
    /\ Untouched

\* the application after start: GeminiProvider.__init__ has called
\* _configure_initial
InitConfigure ==
    /\ inputs = PlainInputs
    /\ listener = ListenerInit(DEFAULT_HOTKEYS)
    /\ dispatch = DispatchInit
    /\ clipboard = ClipboardInit
    /\ clock = 0
    /\ \E l \in ConfigureLists :
          /\ ExactlyOneActive(l)
          /\ keys = [q \in Providers |-> IF q = "gemini" THEN l ELSE DefaultKeys(q)]
          /\ reg = [RegInit(keys) EXCEPT !.genai_key = ConfigureInitial(l, NoApiKey)]
    /\ auto_switch = TRUE
    /\ adapter = "free"
    /\ genai_lock = NoEvent
    /\ current_task_event = NoEvent
    /\ cancel_event = [e \in Execs |-> FALSE]
    /\ th = [e \in Execs |-> ThreadInit]
    /\ worker = [e \in Execs |-> WorkerInit]
    /\ obs = [e \in Execs |-> ObsInit]

NextConfigure ==
    \/ \E i \in 1..(MaxKeys + 1) : ConfigureActivate(i)
    \/ ConfigureSwitch
    \/ \E i \in 1..(MaxKeys + 1) : ConfigureDelete(i)
    \/ \E i \in 1..(MaxKeys + 1), text \in EditedSecrets : ConfigureUpdate(i, text)

\* the operations on the Gemini credential list that move the active
\* credential or change its secret
SpecConfigure == InitConfigure /\ [][NextConfigure]_vars

\* C37 (as stated): after an activation, a rotation, the deletion of the
\* active credential or an edit of the active credential's secret that
\* leaves an active credential with a key, genai is configured with the
\* secret of that credential.
C37_ConfiguredKeyIsActiveKey ==
    LET list == keys["gemini"]
        key == ActiveKeyValue(list)
    IN ( /\ \/ reg.op \in {"activate", "switch"}
            \/ reg.op \in {"delete", "update"} /\ reg.was_active
         /\ key \in {SECRET_OK, SECRET_2} ) =>
            reg.genai_key = key

\* C38 (as stated): while any thread is between the first and the last
\* keystroke of a simulated copy or paste, is_pasting is true, also when
\* another thread's simulation has ended in the meantime.
C38_FlagCoversEverySimulation ==
    \A c \in Execs : listener.sim[c].pc \in KeyPhases => listener.is_pasting

\* ------------------------------------------------ process() runs to its end
\* two configured credentials and a backend that answers every request
\* with a quota error, so that the retry loop runs its full length when
\* auto-switch is on
InitLive ==
    InitWith({ << Cred(SECRET_OK, "Main Key", TRUE), Cred(SECRET_OK, "New Key", FALSE) >> },
             {"always_quota"}, {0}, PlainInputs, DEFAULT_HOTKEYS)

\* the threads of an execution are scheduled: the process() thread takes its
\* next step when it has one, and the backend call of a worker thread ends
\* (generate passes a timeout of 60 seconds to the backend)
ProcessStep(e) == Acquire(e) \/ Busy(e) \/ Poll(e) \/ Release(e) \/ ClearEvent(e)

FairLive ==
    \A e \in Execs : WF_vars(ProcessStep(e)) /\ WF_vars(WorkerFinish(e))

SpecLive == InitLive /\ [][Next]_vars /\ FairLive

\* C39: every process() call that was entered returns, and the generation
\* lock, once taken, becomes free again, so no later hotkey finds it held
\* for ever.
C39_ProcessReturnsLockFreed ==
    /\ \A e \in Execs : (th[e].pc \notin {"idle", "done"}) ~> (th[e].pc = "done")
    /\ (genai_lock # NoEvent) ~> (genai_lock = NoEvent)

\* the first call held the lock and released it, the second was rejected
\* as Busy meanwhile; both have returned and the lock is free
C39_BusyThenFree ==
    /\ th[1].pc = "done" /\ th[2].pc = "done"
    /\ obs[1].acquired /\ obs[1].releases = 1
    /\ obs[2].busy
    /\ genai_lock = NoEvent
    /\ auto_switch
    /\ ActiveIndex(keys["gemini"]) = 1

====
